---- MODULE Spec2Model ----
(***************************************************************************)
(* statsd_exporter: StatsD line parser, UDP/TCP listeners, event queue,    *)
(* dispatcher (Exporter.Listen) and the four metric containers, modelled   *)
(* from src/exporter.go.                                                   *)
(*                                                                         *)
(* Strings are sequences of one-character strings over printable ASCII.    *)
(* float64 values are modelled bit for bit: sign, odd mantissa and binary  *)
(* exponent, with the rounding of IEEE 754 arithmetic.  The fingerprint of *)
(* a metric is the 64-bit FNV-1a digest the code computes.                 *)
(***************************************************************************)
EXTENDS Integers, Sequences, FiniteSets, TLC

(***************************************************************************)
(* Bounds of the model.                                                    *)
(***************************************************************************)
MaxInputs == 2
QueueCap == 1
MaxConns == 1
MaxSamples == 2
\* The events of one sample that the memory of every machine holds; a
\* longer expansion is returned where the memory holds it and ends the
\* process where it does not.
MaxRepeat == 1000000

(***************************************************************************)
(* Natural numbers of any size: little-endian sequences of limbs in base   *)
(* 2^15, without high zero limbs; <<>> is 0.  They carry the 53-bit        *)
(* mantissas of float64 and the 64-bit words of the FNV hash.              *)
(***************************************************************************)
Base == 32768
LimbBits == 15

Limb(a, i) == IF i <= Len(a) THEN a[i] ELSE 0

\* a without its high zero limbs
BTrim(a) ==
  IF \A i \in 1..Len(a) : a[i] = 0 THEN <<>>
  ELSE SubSeq(a, 1, CHOOSE i \in 1..Len(a) :
                      a[i] # 0 /\ \A j \in (i + 1)..Len(a) : a[j] = 0)

RECURSIVE BFromInt(_)
BFromInt(n) == IF n = 0 THEN <<>> ELSE <<n % Base>> \o BFromInt(n \div Base)

RECURSIVE BToIntFrom(_, _)
BToIntFrom(a, i) ==
  IF i > Len(a) THEN 0 ELSE a[i] + Base * BToIntFrom(a, i + 1)
\* The value of a number of at most two limbs.
BToInt(a) == BToIntFrom(a, 1)

BCmpAt(a, b, i) == IF a[i] > b[i] THEN 1 ELSE -1

\* -1, 0 or 1 as a is below, equal to or above b: the highest limb in
\* which they differ decides.
BCmp(a, b) ==
  IF Len(a) > Len(b) THEN 1
  ELSE IF Len(a) < Len(b) THEN -1
  ELSE IF a = b THEN 0
  ELSE BCmpAt(a, b, CHOOSE i \in 1..Len(a) :
                      a[i] # b[i] /\ \A j \in (i + 1)..Len(a) : a[j] = b[j])

\* Limb i of a + b receives a carry when a lower limb overflows and every
\* limb between passes the carry on.
BCarry(a, b, i) ==
  \E j \in 1..(i - 1) :
     /\ Limb(a, j) + Limb(b, j) >= Base
     /\ \A k \in (j + 1)..(i - 1) : Limb(a, k) + Limb(b, k) = Base - 1

BAddTo(a, b, n) ==
  BTrim([i \in 1..(n + 1) |->
           (Limb(a, i) + Limb(b, i) + (IF BCarry(a, b, i) THEN 1 ELSE 0))
             % Base])
BAdd(a, b) == BAddTo(a, b, IF Len(a) > Len(b) THEN Len(a) ELSE Len(b))

BBorrow(a, b, i) ==
  \E j \in 1..(i - 1) :
     /\ Limb(a, j) < Limb(b, j)
     /\ \A k \in (j + 1)..(i - 1) : Limb(a, k) = Limb(b, k)

\* a - b for a >= b
BSub(a, b) ==
  BTrim([i \in 1..Len(a) |->
           (a[i] - Limb(b, i) - (IF BBorrow(a, b, i) THEN 1 ELSE 0) + Base)
             % Base])

\* a * k for 0 <= k < Base: the low halves of the limb products plus their
\* high halves one limb up
BMulSmall(a, k) ==
  BAdd([i \in 1..Len(a) |-> (a[i] * k) % Base],
       [i \in 1..(Len(a) + 1) |->
          IF i = 1 THEN 0 ELSE (a[i - 1] * k) \div Base])

BShiftLimbs(a, n) == IF a = <<>> THEN <<>> ELSE [i \in 1..n |-> 0] \o a

RECURSIVE BMulBy(_, _)
BMulHalves(a, b, h) ==
  BAdd(BMulBy(a, SubSeq(b, 1, h)),
       BShiftLimbs(BMulBy(a, SubSeq(b, h + 1, Len(b))), h))
\* a * b for b # <<>>, by halves of b
BMulBy(a, b) ==
  IF Len(b) = 1 THEN BMulSmall(a, b[1]) ELSE BMulHalves(a, b, Len(b) \div 2)
BMul(a, b) ==
  IF a = <<>> \/ b = <<>> THEN <<>>
  ELSE IF Len(a) < Len(b) THEN BMulBy(b, a) ELSE BMulBy(a, b)

RECURSIVE Pow2(_)
Pow2(k) == IF k = 0 THEN 1 ELSE 2 * Pow2(k - 1)

\* a * 2^n
BShl(a, n) == BShiftLimbs(BMulSmall(a, Pow2(n % LimbBits)), n \div LimbBits)

RECURSIVE BDivSmallFrom(_, _, _, _)
BDivSmallLimb(a, k, i, x, q) ==
  BDivSmallFrom(a, k, i - 1, [q |-> <<x \div k>> \o q.q, r |-> x % k])
BDivSmallFrom(a, k, i, q) ==
  IF i = 0 \/ q.r < 0 THEN q ELSE BDivSmallLimb(a, k, i, q.r * Base + a[i], q)
\* Quotient and remainder of a by k, 0 < k <= Base
BDivSmallTrim(q) == [q |-> BTrim(q.q), r |-> q.r]
BDivSmall(a, k) ==
  BDivSmallTrim(BDivSmallFrom(a, k, Len(a), [q |-> <<>>, r |-> 0]))

BShrLimb(a, i, s) ==
  Limb(a, i) \div Pow2(s) + (Limb(a, i + 1) % Pow2(s)) * Pow2(LimbBits - s)
\* floor(a / 2^n)
BShr(a, n) ==
  BTrim([i \in 1..(Len(a) - n \div LimbBits) |->
           BShrLimb(a, i + n \div LimbBits, n % LimbBits)])

\* a is a multiple of 2^n
BLowZero(a, n) ==
  /\ \A i \in 1..(n \div LimbBits) : Limb(a, i) = 0
  /\ Limb(a, n \div LimbBits + 1) % Pow2(n % LimbBits) = 0

\* Bit k of a, bit 0 being the lowest
BBit(a, k) == (Limb(a, k \div LimbBits + 1) \div Pow2(k % LimbBits)) % 2

\* a mod 2^n compared with 2^(n-1): -1 below, 0 equal, 1 above (n >= 1)
BHalfCmp(a, n) ==
  IF BBit(a, n - 1) = 0 THEN -1
  ELSE IF BLowZero(a, n - 1) THEN 0 ELSE 1

RECURSIVE BitLenSmall(_)
BitLenSmall(x) == IF x = 0 THEN 0 ELSE 1 + BitLenSmall(x \div 2)
BBitLen(a) ==
  IF a = <<>> THEN 0
  ELSE LimbBits * (Len(a) - 1) + BitLenSmall(a[Len(a)])

RECURSIVE TrailingZerosSmall(_)
TrailingZerosSmall(x) ==
  IF x % 2 = 1 THEN 0 ELSE 1 + TrailingZerosSmall(x \div 2)
RECURSIVE BTrailingZerosFrom(_, _)
BTrailingZerosFrom(a, i) ==
  IF a[i] = 0 THEN LimbBits + BTrailingZerosFrom(a, i + 1)
  ELSE TrailingZerosSmall(a[i])
\* The number of low zero bits of a > 0
BTrailingZeros(a) == BTrailingZerosFrom(a, 1)

(***************************************************************************)
(* Long division in base 2^15 (Knuth's algorithm D): the divisor is scaled *)
(* so that its top limb is at least Base / 2, each quotient limb is        *)
(* estimated from the top limbs and corrected downwards.                   *)
(***************************************************************************)
RECURSIVE BFitDigit(_, _, _, _)
\* The largest q <= qhat with d * q <= r, p being d * qhat.
BFitDigit(r, d, qhat, p) ==
  IF BCmp(p, r) <= 0 THEN [q |-> qhat, r |-> BSub(r, p)]
  ELSE BFitDigit(r, d, qhat - 1, BSub(p, d))

BEstimate(r, d) ==
  IF (Limb(r, Len(d) + 1) * Base + Limb(r, Len(d))) \div d[Len(d)] >= Base
  THEN Base - 1
  ELSE (Limb(r, Len(d) + 1) * Base + Limb(r, Len(d))) \div d[Len(d)]

BDigitOf(r, d, qhat) == BFitDigit(r, d, qhat, BMulSmall(d, qhat))

RECURSIVE BLongDivFrom(_, _, _, _)
BLongDivStep(a, d, i, q, f) ==
  BLongDivFrom(a, d, i - 1, [q |-> <<f.q>> \o q.q, r |-> f.r])
BLongDivLimb(a, d, i, q, r) ==
  BLongDivStep(a, d, i, q, BDigitOf(r, d, BEstimate(r, d)))
BLongDivFrom(a, d, i, q) ==
  IF i = 0 \/ Len(q.q) < 0 THEN q
  ELSE BLongDivLimb(a, d, i, q, BTrim(<<a[i]>> \o q.r))

BLongDivTrim(q) == [q |-> BTrim(q.q), r |-> q.r]
\* The top Len(d) - 1 limbs of a are below d and start as the remainder.
BLongDivScaled(a, d) ==
  IF Len(a) < Len(d) THEN [q |-> <<>>, r |-> a]
  ELSE BLongDivTrim(
         BLongDivFrom(a, d, Len(a) - Len(d) + 1,
                      [q |-> <<>>,
                       r |-> BTrim(SubSeq(a, Len(a) - Len(d) + 2, Len(a)))]))

\* The quotient of a by d > 0, and whether the division leaves a remainder.
BDivExact(q) == [q |-> q.q, rest |-> q.r # 0]
BDivLong(q) == [q |-> q.q, rest |-> q.r # <<>>]
BDiv(a, d) ==
  IF Len(d) = 1 THEN BDivExact(BDivSmall(a, d[1]))
  ELSE BDivLong(BLongDivScaled(
                  BShl(a, LimbBits - BitLenSmall(d[Len(d)])),
                  BShl(d, LimbBits - BitLenSmall(d[Len(d)]))))

(***************************************************************************)
(* float64.  A value is [cls, neg, mant, exp]: cls "fin" stands for        *)
(* (-1)^neg * mant * 2^exp with mant odd (or zero: mant = <<>>, exp = 0),  *)
(* cls "inf" for the infinity of that sign and cls "nan" for NaN.  Every   *)
(* operation rounds to the nearest float64, ties to even, as IEEE 754      *)
(* arithmetic does: 53 bits of precision down to 2^-1022, fewer below      *)
(* (subnormal numbers), infinity from 2^1024 on.                           *)
(***************************************************************************)
MantBits == 53
MinExp == -1022
MaxExp == 1024
GuardBits == 55

Double(neg, mant, exp) ==
  [cls |-> "fin", neg |-> neg, mant |-> mant, exp |-> exp]
FZero(neg) == [cls |-> "fin", neg |-> neg, mant |-> <<>>, exp |-> 0]
FInf(neg) == [cls |-> "inf", neg |-> neg, mant |-> <<>>, exp |-> 0]
FNaN == [cls |-> "nan", neg |-> FALSE, mant |-> <<>>, exp |-> 0]

FOdd(neg, m, e, tz) ==
  [cls |-> "fin", neg |-> neg, mant |-> BShr(m, tz), exp |-> e + tz]
\* m * 2^e with m brought to its odd part
FCanon(neg, m, e) ==
  IF m = <<>> THEN FZero(neg) ELSE FOdd(neg, m, e, BTrailingZeros(m))

\* m * 2^e, of at most 53 bits, or the infinity it overflows to
FRange(neg, m, e) ==
  IF BBitLen(m) + e > MaxExp THEN FInf(neg) ELSE FCanon(neg, m, e)

FRoundUp(m, half, sticky) ==
  half > 0 \/ (half = 0 /\ (sticky \/ Limb(m, 1) % 2 = 1))

FRounded(neg, m, e, up) ==
  FRange(neg, IF up THEN BAdd(m, <<1>>) ELSE m, e)

\* q * 2^x (+ a little when sticky) with the low drop bits of q rounded off
FDropBits(neg, q, sticky, x, drop) ==
  IF drop > BBitLen(q) THEN FZero(neg)
  ELSE FRounded(neg, BShr(q, drop), x + drop,
                FRoundUp(BShr(q, drop), BHalfCmp(q, drop), sticky))

\* The precision float64 has for a number whose leading bit is 2^top
FPrecision(top) == IF top >= MinExp THEN MantBits ELSE top - MinExp + MantBits

\* q of at least 55 bits
FRoundBits(neg, q, sticky, x) ==
  FDropBits(neg, q, sticky, x,
            BBitLen(q) - FPrecision(BBitLen(q) - 1 + x))

FRoundQuotient(neg, d, e, k) == FRoundBits(neg, d.q, d.rest, e - k)

\* floor(n * 2^k / d), and whether the division leaves a remainder
BDivScaled(n, d, k) ==
  IF d = <<1>>
  THEN (IF k >= 0 THEN [q |-> BShl(n, k), rest |-> FALSE]
        ELSE [q |-> BShr(n, -k), rest |-> ~BLowZero(n, -k)])
  ELSE IF k >= 0 THEN BDiv(BShl(n, k), d) ELSE BDiv(n, BShl(d, -k))

FScaled(neg, n, d, e, k) == FRoundQuotient(neg, BDivScaled(n, d, k), e, k)

\* The float64 nearest to (-1)^neg * (n / d) * 2^e, for d > 0
RoundToDouble(neg, n, d, e) ==
  IF n = <<>> THEN FZero(neg)
  ELSE FScaled(neg, n, d, e, GuardBits - (BBitLen(n) - BBitLen(d)))

\* float64(k) for an integer k of at most 30 bits
FromInt(k) == FCanon(k < 0, BFromInt(IF k < 0 THEN -k ELSE k), 0)

FIsZero(x) == x.cls = "fin" /\ x.mant = <<>>
\* x < 0.0
FNegative(x) == x.cls # "nan" /\ x.neg /\ ~FIsZero(x)

\* x / y
FDiv(x, y) ==
  CASE x.cls = "nan" \/ y.cls = "nan" -> FNaN
    [] x.cls = "inf" /\ y.cls = "inf" -> FNaN
    [] x.cls = "inf" -> FInf(x.neg # y.neg)
    [] y.cls = "inf" -> FZero(x.neg # y.neg)
    [] FIsZero(x) /\ FIsZero(y) -> FNaN
    [] FIsZero(y) -> FInf(x.neg # y.neg)
    [] OTHER -> RoundToDouble(x.neg # y.neg, x.mant, y.mant, x.exp - y.exp)

FTop(x) == BBitLen(x.mant) + x.exp

FSumSigned(xneg, a, yneg, b, e, c) ==
  IF xneg = yneg THEN RoundToDouble(xneg, BAdd(a, b), <<1>>, e)
  ELSE IF c = 0 THEN FZero(FALSE)
  ELSE IF c > 0 THEN RoundToDouble(xneg, BSub(a, b), <<1>>, e)
  ELSE RoundToDouble(yneg, BSub(b, a), <<1>>, e)

FSumAligned(xneg, a, yneg, b, e) ==
  FSumSigned(xneg, a, yneg, b, e, BCmp(a, b))

FSumAt(x, y, e) ==
  FSumAligned(x.neg, BShl(x.mant, x.exp - e), y.neg, BShl(y.mant, y.exp - e), e)

\* x + y.  A term more than 64 binary places below the other is below a
\* quarter of its last place and leaves it as it is.
FAdd(x, y) ==
  CASE x.cls = "nan" \/ y.cls = "nan" -> FNaN
    [] x.cls = "inf" /\ y.cls = "inf" -> IF x.neg = y.neg THEN x ELSE FNaN
    [] x.cls = "inf" -> x
    [] y.cls = "inf" -> y
    [] FIsZero(x) /\ FIsZero(y) -> FZero(x.neg /\ y.neg)
    [] FIsZero(x) -> y
    [] FIsZero(y) -> x
    [] FTop(x) - FTop(y) > 64 -> x
    [] FTop(y) - FTop(x) > 64 -> y
    [] OTHER -> FSumAt(x, y, IF x.exp < y.exp THEN x.exp ELSE y.exp)

Zero == FZero(FALSE)
One == FromInt(1)

(***************************************************************************)
(* String helpers (package strings, unicode/utf8, strconv).                *)
(***************************************************************************)
BadByte == "\\xff"
Digits == {"0", "1", "2", "3", "4", "5", "6", "7", "8", "9"}
LowerLetters ==
  <<"a", "b", "c", "d", "e", "f", "g", "h", "i", "j", "k", "l", "m",
    "n", "o", "p", "q", "r", "s", "t", "u", "v", "w", "x", "y", "z">>
UpperLetters ==
  <<"A", "B", "C", "D", "E", "F", "G", "H", "I", "J", "K", "L", "M",
    "N", "O", "P", "Q", "R", "S", "T", "U", "V", "W", "X", "Y", "Z">>
Letters ==
  {LowerLetters[i] : i \in 1..26} \cup {UpperLetters[i] : i \in 1..26}

DigitVal(c) ==
  CASE c = "0" -> 0 [] c = "1" -> 1 [] c = "2" -> 2 [] c = "3" -> 3
    [] c = "4" -> 4 [] c = "5" -> 5 [] c = "6" -> 6 [] c = "7" -> 7
    [] c = "8" -> 8 [] c = "9" -> 9

\* strings.Index(s, c) for a one-byte c, 1-based; 0 when absent.
IndexOf(s, c) ==
  IF \E i \in 1..Len(s) : s[i] = c
  THEN CHOOSE i \in 1..Len(s) : s[i] = c /\ \A j \in 1..(i - 1) : s[j] # c
  ELSE 0

\* strings.Split(s, c): always at least one piece.
RECURSIVE Split(_, _)
SplitAt(s, c, i) ==
  IF i = 0 THEN <<s>>
  ELSE <<SubSeq(s, 1, i - 1)>> \o Split(SubSeq(s, i + 1, Len(s)), c)
Split(s, c) == SplitAt(s, c, IndexOf(s, c))

\* strings.SplitN(s, c, 2)
SplitN2At(s, i) ==
  IF i = 0 THEN <<s>>
  ELSE <<SubSeq(s, 1, i - 1), SubSeq(s, i + 1, Len(s))>>
SplitN2(s, c) == SplitN2At(s, IndexOf(s, c))

\* strings.Contains(s, ab) for a two-byte ab
Contains2(s, a, b) == \E i \in 1..(Len(s) - 1) : s[i] = a /\ s[i + 1] = b

\* strings.TrimPrefix(s, c)
TrimPrefix(s, c) == IF Len(s) > 0 /\ s[1] = c THEN Tail(s) ELSE s

\* utf8.ValidString
ValidString(s) == \A i \in 1..Len(s) : s[i] # BadByte

(***************************************************************************)
(* strconv.ParseFloat(s, 64): the special values, decimal and hexadecimal  *)
(* numbers with underscores between digits, and the two kinds of error: a  *)
(* syntax error returns 0, a range error returns the infinity.             *)
(***************************************************************************)
\* lower(c) of package strconv, for the letters it is compared with
Lower(c) ==
  IF IndexOf(UpperLetters, c) = 0 THEN c
  ELSE LowerLetters[IndexOf(UpperLetters, c)]

HexLetters == {"a", "b", "c", "d", "e", "f"}
HexVal(c) ==
  CASE c = "a" -> 10 [] c = "b" -> 11 [] c = "c" -> 12
    [] c = "d" -> 13 [] c = "e" -> 14 [] c = "f" -> 15

RECURSIVE commonPrefixLenIgnoreCase(_, _)
commonPrefixLenIgnoreCase(s, prefix) ==
  IF s = <<>> \/ prefix = <<>> \/ Lower(s[1]) # prefix[1] THEN 0
  ELSE 1 + commonPrefixLenIgnoreCase(Tail(s), Tail(prefix))

NoSpecial == [ok |-> FALSE, val |-> FZero(FALSE), n |-> 0]

SpecialInf(neg, nsign, n) ==
  IF n = 3 \/ n = 8 THEN [ok |-> TRUE, val |-> FInf(neg), n |-> nsign + n]
  ELSE NoSpecial

\* "Anything longer than inf is ok, but if we don't have infinity only
\* consume inf."
SpecialInfLen(neg, nsign, n) ==
  SpecialInf(neg, nsign, IF 3 < n /\ n < 8 THEN 3 ELSE n)

special(s) ==
  CASE s = <<>> -> NoSpecial
    [] s # <<>> /\ s[1] \in {"+", "-"} ->
         SpecialInfLen(s[1] = "-", 1,
                       commonPrefixLenIgnoreCase(
                         Tail(s), <<"i", "n", "f", "i", "n", "i", "t", "y">>))
    [] s # <<>> /\ s[1] \in {"i", "I"} ->
         SpecialInfLen(FALSE, 0,
                       commonPrefixLenIgnoreCase(
                         s, <<"i", "n", "f", "i", "n", "i", "t", "y">>))
    [] s # <<>> /\ s[1] \in {"n", "N"} ->
         IF commonPrefixLenIgnoreCase(s, <<"n", "a", "n">>) = 3
         THEN [ok |-> TRUE, val |-> FNaN, n |-> 3]
         ELSE NoSpecial
    [] OTHER -> NoSpecial

IsDigitOf(c, hex) == c \in Digits \/ (hex /\ Lower(c) \in HexLetters)
DigitOf(c) == IF c \in Digits THEN DigitVal(c) ELSE HexVal(Lower(c))

\* underscoreOK: an underscore stands between two digits, the base prefix
\* counting as a digit.  saw is "^" at the start, "0" after a digit, "_"
\* after an underscore and "!" after anything else.
RECURSIVE UnderscoreScan(_, _, _, _)
UnderscoreScan(s, i, hex, saw) ==
  IF i > Len(s) THEN saw # "_"
  ELSE IF IsDigitOf(s[i], hex) THEN UnderscoreScan(s, i + 1, hex, "0")
  ELSE IF s[i] = "_"
  THEN saw = "0" /\ UnderscoreScan(s, i + 1, hex, "_")
  ELSE saw # "_" /\ UnderscoreScan(s, i + 1, hex, "!")

UnderscoreUnsigned(s) ==
  IF Len(s) >= 2 /\ s[1] = "0" /\ Lower(s[2]) \in {"b", "o", "x"}
  THEN UnderscoreScan(s, 3, Lower(s[2]) = "x", "0")
  ELSE UnderscoreScan(s, 1, FALSE, "^")

underscoreOK(s) ==
  IF Len(s) >= 1 /\ s[1] \in {"+", "-"} THEN UnderscoreUnsigned(Tail(s))
  ELSE UnderscoreUnsigned(s)

\* The digits of the mantissa: m is the scanner's state.
MantissaDigit(m, d, base) ==
  [m EXCEPT !.i = @ + 1, !.sawdigits = TRUE,
            !.mant = BAdd(BMulSmall(@, base), BFromInt(d)),
            !.nd = IF d = 0 /\ m.nd = 0 THEN 0 ELSE @ + 1,
            !.frac = IF m.sawdot THEN @ + 1 ELSE @]

RECURSIVE MantissaLoop(_, _, _)
MantissaLoop(s, base, m) ==
  IF m.i > Len(s) \/ Len(m.mant) < 0 THEN m
  ELSE IF s[m.i] = "_"
  THEN MantissaLoop(s, base, [m EXCEPT !.i = @ + 1, !.underscores = TRUE])
  ELSE IF s[m.i] = "."
  THEN (IF m.sawdot THEN m
        ELSE MantissaLoop(s, base, [m EXCEPT !.i = @ + 1, !.sawdot = TRUE]))
  ELSE IF IsDigitOf(s[m.i], base = 16)
  THEN MantissaLoop(s, base, MantissaDigit(m, DigitOf(s[m.i]), base))
  ELSE m

\* The digits of the exponent: "if e < 10000 { e = e*10 + digit }".
RECURSIVE ExponentLoop(_, _)
ExponentLoop(s, m) ==
  IF m.i > Len(s) \/ m.e < 0 THEN m
  ELSE IF s[m.i] = "_"
  THEN ExponentLoop(s, [m EXCEPT !.i = @ + 1, !.underscores = TRUE])
  ELSE IF s[m.i] \in Digits
  THEN ExponentLoop(s, [m EXCEPT !.i = @ + 1,
                                 !.e = IF @ < 10000
                                       THEN @ * 10 + DigitVal(s[m.i]) ELSE @])
  ELSE m

ReadUnderscores(s, m) ==
  IF m.underscores /\ ~underscoreOK(SubSeq(s, 1, m.i - 1))
  THEN [m EXCEPT !.ok = FALSE]
  ELSE [m EXCEPT !.ok = TRUE]

ReadExponentDigits(s, m) ==
  IF m.i > Len(s) \/ s[m.i] \notin Digits THEN m
  ELSE ReadUnderscores(s, ExponentLoop(s, m))

ReadExponentSign(s, m) ==
  IF m.i > Len(s) THEN m
  ELSE IF s[m.i] = "+" THEN ReadExponentDigits(s, [m EXCEPT !.i = @ + 1])
  ELSE IF s[m.i] = "-"
  THEN ReadExponentDigits(s, [m EXCEPT !.i = @ + 1, !.eneg = TRUE])
  ELSE ReadExponentDigits(s, m)

ReadExponent(s, base, m) ==
  IF ~m.sawdigits THEN m
  ELSE IF m.i <= Len(s) /\ Lower(s[m.i]) = (IF base = 16 THEN "p" ELSE "e")
  THEN ReadExponentSign(s, [m EXCEPT !.i = @ + 1])
  ELSE IF base = 16 THEN m
  ELSE ReadUnderscores(s, m)

ReadMantissa(s, i, neg, base) ==
  ReadExponent(s, base,
               MantissaLoop(s, base,
                            [ok |-> FALSE, neg |-> neg, base |-> base, i |-> i,
                             sawdot |-> FALSE, sawdigits |-> FALSE,
                             mant |-> <<>>, nd |-> 0, frac |-> 0, e |-> 0,
                             eneg |-> FALSE, underscores |-> FALSE]))

ReadBase(s, i, neg) ==
  IF i + 2 <= Len(s) /\ s[i] = "0" /\ Lower(s[i + 1]) = "x"
  THEN ReadMantissa(s, i + 2, neg, 16)
  ELSE ReadMantissa(s, i, neg, 10)

\* readFloat: the sign, the mantissa as an integer of all its digits, the
\* number of its digits behind the point, the exponent, and the position
\* behind the number; ok is false where s has no number at its start.
readFloat(s) ==
  IF s # <<>> /\ s[1] = "+" THEN ReadBase(s, 2, FALSE)
  ELSE IF s # <<>> /\ s[1] = "-" THEN ReadBase(s, 2, TRUE)
  ELSE ReadBase(s, 1, FALSE)

RECURSIVE BPow10(_)
BSquare(a) == BMul(a, a)
BPow10(k) ==
  IF k = 0 THEN <<1>>
  ELSE IF k % 2 = 1 THEN BMulSmall(BPow10(k - 1), 10)
  ELSE BSquare(BPow10(k \div 2))

Signed(neg, e) == IF neg THEN -e ELSE e

\* A number of nd digits times 10^dexp is at least 10^(nd + dexp - 1) and
\* below 10^(nd + dexp); float64 ends below 10^309 and rounds everything
\* under 10^-324 to zero.
DecimalValue(neg, mant, nd, dexp) ==
  IF mant = <<>> \/ nd + dexp < -330 THEN FZero(neg)
  ELSE IF nd + dexp > 310 THEN FInf(neg)
  ELSE IF dexp >= 0 THEN RoundToDouble(neg, BMul(mant, BPow10(dexp)), <<1>>, 0)
  ELSE RoundToDouble(neg, mant, BPow10(-dexp), 0)

HexValue(neg, mant, bexp) ==
  IF mant = <<>> \/ BBitLen(mant) + bexp < -1100 THEN FZero(neg)
  ELSE IF BBitLen(mant) + bexp > 1100 THEN FInf(neg)
  ELSE RoundToDouble(neg, mant, <<1>>, bexp)

FloatValue(m) ==
  IF m.base = 16
  THEN HexValue(m.neg, m.mant, Signed(m.eneg, m.e) - 4 * m.frac)
  ELSE DecimalValue(m.neg, m.mant, m.nd, Signed(m.eneg, m.e) - m.frac)

SyntaxError == [err |-> TRUE, val |-> FZero(FALSE)]

\* A number out of range gives the infinity and a range error.
RangeChecked(val) == [err |-> val.cls = "inf", val |-> val]

ParseNumber(s, m) ==
  IF ~m.ok \/ m.i - 1 # Len(s) THEN SyntaxError
  ELSE RangeChecked(FloatValue(m))

ParseSpecial(s, sp) ==
  IF ~sp.ok THEN ParseNumber(s, readFloat(s))
  ELSE IF sp.n # Len(s) THEN SyntaxError
  ELSE [err |-> FALSE, val |-> sp.val]

\* strconv.ParseFloat(s, 64)
atof64(s) == ParseSpecial(s, special(s))

\* The numerals of the inputs below, converted once.
Numerals ==
  {<<"0", ".", "2", "5">>, <<"0", ".", "5">>, <<"0", ".", "6">>,
   <<"0", ".", "1">>, <<"0">>, <<"2">>, <<"-", "0", ".", "5">>,
   <<"0", ".", "0", "0", "0", "3", "2">>, <<"5", "e", "-", "1">>,
   <<"1", "e", "4", "0", "0">>,
   <<"0", ".", "0", "0", "0", "0", "0", "0", "0", "0", "0", "0", "0", "0", "0", "0", "0", "0", "0", "0", "1">>,
   <<"1">>, <<"-", "3">>, <<"1", "0", "0">>, <<"+", "5">>, <<"2", ".", "5">>,
   <<"5">>, <<"1", "e", "2">>, <<"0", "x", "1", "p", "-", "2">>,
   <<"1", "_", "0">>, <<"i", "n", "f">>, <<"n", "a", "n">>, <<"x">>,
   <<"-", "1">>, <<"3">>, <<"4">>, <<"1", "0">>, <<"+", "2">>, <<"1", "e">>,
   <<"0", "x", "1">>, <<"0", ".", "0", "0", "0", "0", "0", "0", "9">>}
Converted == [s \in Numerals |-> atof64(s)]

ParseFloat(s) == IF s \in Numerals THEN Converted[s] ELSE atof64(s)

(***************************************************************************)
(* int(x) of a float64 x: the integer part, as a sign and a magnitude.     *)
(* Outside int64 the result is implementation-dependent: amd64 gives the   *)
(* lowest int64 for every such x, arm64 the nearest int64 and 0 for NaN.   *)
(* A machine is the architecture the program is built for and whether its  *)
(* memory holds the events of a repeat count beyond MaxRepeat.             *)
(***************************************************************************)
IntConversions == {"amd64", "arm64"}
Machines == [arch : IntConversions, holds : BOOLEAN]

Int64(neg, mag) == [neg |-> neg /\ mag # <<>>, mag |-> mag]
\* -2^63 and 2^63 - 1
MinInt64 == Int64(TRUE, <<0, 0, 0, 0, 8>>)
MaxInt64 == Int64(FALSE, <<32767, 32767, 32767, 32767, 7>>)

IntOutOfRange(x, machine) ==
  IF machine.arch = "amd64" THEN MinInt64
  ELSE IF x.cls = "nan" THEN Int64(FALSE, <<>>)
  ELSE IF x.neg THEN MinInt64
  ELSE MaxInt64

InInt64(x) ==
  /\ x.cls = "fin"
  /\ \/ BBitLen(x.mant) + x.exp <= 63
     \/ (x.neg /\ x.mant = <<1>> /\ x.exp = 63)

IntOf(x, machine) ==
  IF ~InInt64(x) THEN IntOutOfRange(x, machine)
  ELSE IF x.exp >= 0 THEN Int64(x.neg, BShl(x.mant, x.exp))
  ELSE Int64(x.neg, BShr(x.mant, -x.exp))

(***************************************************************************)
(* escapeMetricName                                                        *)
(***************************************************************************)
LegalChar(c) == c \in Letters \cup Digits \cup {"_"}

\* illegalCharsRE.ReplaceAllString(metricName, "_")
ReplaceIllegal(metricName) ==
  [i \in 1..Len(metricName) |->
     IF LegalChar(metricName[i]) THEN metricName[i] ELSE "_"]

\* metricName[0] on the empty string is an index out of range: a panic.
escapeMetricName(metricName) ==
  IF metricName = <<>>
  THEN [panic |-> TRUE, val |-> <<>>]
  ELSE [panic |-> FALSE,
        val |-> IF metricName[1] \in Digits
                THEN ReplaceIllegal(<<"_">> \o metricName)
                ELSE ReplaceIllegal(metricName)]

(***************************************************************************)
(* Parser statistics (the sampleErrors vector and the plain counters).     *)
(***************************************************************************)
ParseStatNames ==
  {"malformed_line", "malformed_component", "malformed_value",
   "illegal_sample_factor", "invalid_sample_factor", "illegal_event",
   "samplesReceived", "tagsReceived", "tagErrors"}

NoStats == [k \in ParseStatNames |-> 0]
Bump(st, k) == [st EXCEPT ![k] = @ + 1]
AddStats(a, b) == [k \in DOMAIN a |-> a[k] + b[k]]

(***************************************************************************)
(* Events                                                                  *)
(***************************************************************************)
NoLabels == <<>>
PutLabel(l, k, v) == [x \in DOMAIN l \cup {k} |-> IF x = k THEN v ELSE l[x]]

buildEvent(statType, metric, value, relative, labels) ==
  CASE statType = <<"c">> ->
         [err |-> FALSE,
          ev |-> [kind |-> "counter", metricName |-> metric, value |-> value,
                  relative |-> FALSE, labels |-> labels]]
    [] statType = <<"g">> ->
         [err |-> FALSE,
          ev |-> [kind |-> "gauge", metricName |-> metric, value |-> value,
                  relative |-> relative, labels |-> labels]]
    [] statType \in {<<"m", "s">>, <<"h">>} ->
         [err |-> FALSE,
          ev |-> [kind |-> "timer", metricName |-> metric, value |-> value,
                  relative |-> FALSE, labels |-> labels]]
    [] OTHER ->
         [err |-> TRUE,
          ev |-> [kind |-> "none", metricName |-> metric, value |-> value,
                  relative |-> FALSE, labels |-> labels]]

(***************************************************************************)
(* parseDogStatsDTagsToLabels                                              *)
(***************************************************************************)
\* One tag of the block: kv is the tag split at its first ':'.
TagPut(acc, k, v) ==
  IF k.panic THEN [acc EXCEPT !.panic = TRUE]
  ELSE [acc EXCEPT !.labels = PutLabel(@, k.val, v)]

TagStep(acc, kv) ==
  IF Len(kv) < 2 \/ Len(kv[2]) = 0
  THEN [acc EXCEPT !.stats = Bump(@, "tagErrors")]
  ELSE TagPut(acc, escapeMetricName(kv[1]), kv[2])

RECURSIVE TagLoop(_, _, _)
TagLoop(tags, i, acc) ==
  IF i > Len(tags) \/ acc.panic THEN acc
  ELSE TagLoop(tags, i + 1,
               TagStep(acc, SplitN2(TrimPrefix(tags[i], "#"), ":")))

parseDogStatsDTagsToLabels(component, stats) ==
  TagLoop(Split(component, ","), 1,
          [labels |-> NoLabels, stats |-> Bump(stats, "tagsReceived"),
           panic |-> FALSE])

(***************************************************************************)
(* lineToEvents                                                            *)
(***************************************************************************)
Half == FDiv(One, FromInt(2))

\* x rounded to the nearest integer, halves away from zero.
RoundOf(x, machine) == IntOf(FAdd(x, IF x.neg THEN FDiv(Half, FromInt(-1)) ELSE Half), machine)

\* multiplyEvents = int(1 / samplingFactor)
MultiplyEvents(samplingFactor, machine) == IntOf(FDiv(One, samplingFactor), machine)

\* A parser that reads the factor and leaves value and count as they were.
ApplyFactorIgnored(statType, acc, samplingFactor, machine) == acc

\* Lines 511-519: the factor, with 0 already replaced by 1, is applied.
ApplyFactor(statType, acc, samplingFactor, machine) ==
  IF statType = <<"c">>
  THEN [acc EXCEPT !.value = FDiv(@, samplingFactor)]
  ELSE [acc EXCEPT !.multiplyEvents = MultiplyEvents(samplingFactor, machine)]

\* Lines 506-513: pf is what ParseFloat returned for the factor.  After an
\* error the factor it returned (0, or the infinity) is used all the same.
FactorStep(statType, acc, pf, machine) ==
  ApplyFactor(statType,
              IF pf.err
              THEN [acc EXCEPT !.stats = Bump(@, "invalid_sample_factor")]
              ELSE acc,
              IF FIsZero(pf.val) THEN One ELSE pf.val,
              machine)

TagsStep(acc, r) ==
  [acc EXCEPT !.labels = r.labels, !.stats = r.stats, !.panic = r.panic]

\* A parser that applies a sampling factor to a sample of any type.
ComponentStepAnyType(component, statType, acc, machine) ==
  CASE component[1] = "@" ->
         FactorStep(statType, acc, ParseFloat(Tail(component)), machine)
    [] component[1] = "#" ->
         TagsStep(acc, parseDogStatsDTagsToLabels(component, acc.stats))
    [] OTHER ->
         [acc EXCEPT !.stats = Bump(@, "invalid_sample_factor")]

\* The switch over one optional component of a sample (lines 499-526).
ComponentStep(component, statType, acc, machine) ==
  CASE component[1] = "@" ->
         IF statType # <<"c">> /\ statType # <<"m", "s">>
         THEN [acc EXCEPT !.stats = Bump(@, "illegal_sample_factor")]
         ELSE FactorStep(statType, acc, ParseFloat(Tail(component)), machine)
    [] component[1] = "#" ->
         TagsStep(acc, parseDogStatsDTagsToLabels(component, acc.stats))
    [] OTHER ->
         [acc EXCEPT !.stats = Bump(@, "invalid_sample_factor")]

RECURSIVE ComponentLoop(_, _, _, _, _)
ComponentLoop(comps, i, statType, acc, machine) ==
  IF i > Len(comps) \/ acc.panic THEN acc
  ELSE ComponentLoop(comps, i + 1, statType,
                     ComponentStep(comps[i], statType, acc, machine), machine)

\* 2^60: a slice of more events, of 16 bytes each, is beyond the address
\* space of a 64-bit machine.
MaxEvents == <<0, 0, 0, 0, 1>>

\* The loop "for i := 0; i < multiplyEvents; i++" (lines 530-538): every
\* pass appends the event b.ev, or counts the error of buildEvent.  The
\* loop has no bound of its own: it returns all its events when the memory
\* of the machine holds them, which it does up to MaxRepeat events on every
\* machine and beyond on some, and the process ends when it does not.
BuildLoop(n, b, machine) ==
  IF n.neg \/ n.mag = <<>>
  THEN [events |-> <<>>, errs |-> 0, panic |-> FALSE]
  ELSE IF b.err
  THEN [events |-> <<>>, errs |-> BToInt(n.mag), panic |-> FALSE]
  ELSE IF BCmp(n.mag, MaxEvents) > 0
  THEN [events |-> <<>>, errs |-> 0, panic |-> TRUE]
  ELSE IF BCmp(n.mag, BFromInt(MaxRepeat)) > 0 /\ ~machine.holds
  THEN [events |-> <<>>, errs |-> 0, panic |-> TRUE]
  ELSE [events |-> [i \in 1..BToInt(n.mag) |-> b.ev], errs |-> 0,
        panic |-> FALSE]

\* Lines 475-478.
IsRelative(valueStr) ==
  IndexOf(valueStr, "+") = 1 \/ IndexOf(valueStr, "-") = 1

AppendBuilt(acc, stats, b) ==
  [acc EXCEPT !.events = @ \o b.events,
              !.stats = [stats EXCEPT !["illegal_event"] = @ + b.errs],
              !.panic = b.panic]

\* c is the state after the optional components of the sample.
EmitEvents(valueStr, statType, metric, acc, c, machine) ==
  IF c.panic
  THEN [acc EXCEPT !.stats = c.stats, !.panic = TRUE]
  ELSE AppendBuilt(acc, c.stats,
                   BuildLoop(c.multiplyEvents,
                             buildEvent(statType, metric, c.value,
                                        IsRelative(valueStr), c.labels),
                             machine))

\* A parser that passes over an empty component and reads the others.
ParseOptionsLenient(valueStr, statType, opts, metric, acc, value, machine) ==
  EmitEvents(valueStr, statType, metric, acc,
             ComponentLoop(SelectSeq(opts, LAMBDA o : Len(o) > 0), 1, statType,
                           [value |-> value,
                            multiplyEvents |-> Int64(FALSE, <<1>>),
                            labels |-> NoLabels, stats |-> acc.stats,
                            panic |-> FALSE],
                           machine),
             machine)

\* Lines 487-538.
ParseOptions(valueStr, statType, opts, metric, acc, value, machine) ==
  IF \E j \in 1..Len(opts) : Len(opts[j]) = 0
  THEN [acc EXCEPT !.stats = Bump(@, "malformed_component")]
  ELSE EmitEvents(valueStr, statType, metric, acc,
                  ComponentLoop(opts, 1, statType,
                                [value |-> value,
                                 multiplyEvents |-> Int64(FALSE, <<1>>),
                                 labels |-> NoLabels, stats |-> acc.stats,
                                 panic |-> FALSE],
                                machine),
                  machine)

\* Lines 480-485: pv is what ParseFloat returned for the value.
ParseValue(components, metric, acc, pv, machine) ==
  IF pv.err
  THEN [acc EXCEPT !.stats = Bump(@, "malformed_value")]
  ELSE ParseOptions(components[1], components[2],
                    SubSeq(components, 3, Len(components)), metric, acc,
                    pv.val, machine)

\* Lines 466-473.
ParseComponents(components, metric, acc, machine) ==
  IF Len(components) < 2 \/ Len(components) > 4
  THEN [acc EXCEPT !.stats = Bump(@, "malformed_component")]
  ELSE ParseValue(components, metric, acc, ParseFloat(components[1]), machine)

\* The body of the samples loop for one sample (lines 465-538).
ParseSample(sample, metric, acc, machine) ==
  ParseComponents(Split(sample, "|"), metric,
                  [acc EXCEPT !.stats = Bump(@, "samplesReceived")], machine)

\* A loop that stops after the first sample of the line.
SampleLoopFirstOnly(samples, i, metric, acc, machine) ==
  IF i > 1 \/ i > Len(samples) \/ acc.panic THEN acc
  ELSE ParseSample(samples[i], metric, acc, machine)

RECURSIVE SampleLoop(_, _, _, _, _)
SampleLoop(samples, i, metric, acc, machine) ==
  IF i > Len(samples) \/ acc.panic THEN acc
  ELSE SampleLoop(samples, i + 1, metric,
                  ParseSample(samples[i], metric, acc, machine), machine)

\* Lines 450-462: elements is the line split at its first ':'.
LineElements(line, elements, machine) ==
  IF Len(elements) < 2 \/ Len(elements[1]) = 0 \/ ~ValidString(line)
  THEN [events |-> <<>>, stats |-> Bump(NoStats, "malformed_line"),
        panic |-> FALSE]
  ELSE SampleLoop(IF Contains2(elements[2], "|", "#")
                  THEN <<elements[2]>>
                  ELSE Split(elements[2], ":"),
                  1, elements[1],
                  [events |-> <<>>, stats |-> NoStats, panic |-> FALSE],
                  machine)

\* lineToEvents(line): the events, the statistics it adds, and whether the
\* call ended the process instead of returning.  machine is how the build
\* converts a float64 outside int64 to an integer and whether the memory
\* holds a repeat count beyond MaxRepeat.
lineToEvents(line, machine) ==
  IF line = <<>>
  THEN [events |-> <<>>, stats |-> NoStats, panic |-> FALSE]
  ELSE LineElements(line, SplitN2(line, ":"), machine)

(***************************************************************************)
(* Program state.                                                          *)
(***************************************************************************)
VARIABLES
  proc,                  \* "running", or how the process ended: "fatal", "panic"
  udp,                   \* StatsDUDPListener.Listen: position and parsed batch
  conns,                 \* StatsDTCPListener.handleConn, one per connection
  queue,                 \* the Events channel, in arrival order
  closed,                \* whether the Events channel has been closed
  disp,                  \* Exporter.Listen: position, current batch, event index
  hashScratch,           \* the package-level strBuf / intBuf fed to the hasher
  inGet,                 \* threads between entering hashNameAndLabels and leaving Get
  lastGet,               \* what the last container Get returned
  Elements,              \* Elements map of each of the four containers
  registry,              \* descriptors held by the process-wide registry
  metrics,               \* every metric object a container refers to, by handle
  eventStats,            \* eventStats vector
  conflictingEventStats, \* conflictingEventStats vector
  eventsUnmapped,        \* eventsUnmapped counter
  parseStats,            \* sampleErrors, samplesReceived, tagsReceived, tagErrors
  netStats,              \* udpPackets, linesReceived, tcp* counters
  defaultsTimerType,     \* mapper.Defaults.TimerType
  inputs,                \* datagrams and TCP lines received so far
  pushed,                \* every batch sent on the channel, in send order
  taken,                 \* number of batches the dispatcher has received
  handled,               \* every event the dispatcher is done with, and its outcome
  pin,                   \* input of the parser-only specification
  pres                   \* its result

vars ==
  <<proc, udp, conns, queue, closed, disp, hashScratch, inGet, lastGet, Elements,
    registry, metrics, eventStats, conflictingEventStats, eventsUnmapped,
    parseStats, netStats, defaultsTimerType, inputs, pushed, taken, handled,
    pin, pres>>

netVars == <<udp, conns, parseStats, netStats, inputs>>
chanVars == <<queue, pushed, closed>>
dispVars == <<disp, hashScratch, inGet, lastGet, taken, handled>>
metricVars ==
  <<Elements, registry, metrics, eventStats, conflictingEventStats,
    eventsUnmapped>>
parseVars == <<pin, pres>>

Dispatcher == "dispatcher"
UDPThread == "udp"
ConnIds == 1..MaxConns
Containers == {"counter", "gauge", "summary", "histogram"}

defaultHelp == "Metric autogenerated by statsd_exporter."
timerTypeDefault == ""
timerTypeSummary == "summary"
timerTypeHistogram == "histogram"
actionTypeDrop == "drop"

(***************************************************************************)
(* The naming policy consumed by the dispatcher (metricMapper.getMapping)  *)
(* and its defaults.                                                       *)
(***************************************************************************)
DefaultQuantiles == <<"q50", "q90", "q99">>
DefaultBuckets == <<"b1", "b10">>

ZeroMapping ==
  [Name |-> <<>>, Action |-> "", HelpText |-> "", TimerType |-> timerTypeDefault,
   Quantiles |-> <<>>, Buckets |-> <<>>]

getMapping(statsdMetric, statsdMetricType) ==
  CASE statsdMetric = <<"b">> ->
         [present |-> TRUE,
          mapping |-> [ZeroMapping EXCEPT !.Name = <<"a">>, !.HelpText = "help b",
                         !.TimerType = timerTypeHistogram,
                         !.Buckets = <<"b5">>, !.Quantiles = <<"q75">>],
          labels |-> NoLabels]
    [] statsdMetric = <<"s">> ->
         [present |-> TRUE,
          mapping |-> [ZeroMapping EXCEPT !.Name = <<"a">>,
                         !.TimerType = timerTypeSummary,
                         !.Quantiles = <<"q75">>],
          labels |-> NoLabels]
    [] statsdMetric = <<"d">> ->
         [present |-> TRUE,
          mapping |-> [ZeroMapping EXCEPT !.Name = <<"d">>,
                         !.Action = actionTypeDrop],
          labels |-> NoLabels]
    [] statsdMetric = <<"e">> ->
         [present |-> TRUE,
          mapping |-> [ZeroMapping EXCEPT !.Name = <<"e">>],
          labels |-> PutLabel(NoLabels, <<"t">>, <<"p">>)]
    [] OTHER ->
         [present |-> FALSE, mapping |-> ZeroMapping, labels |-> NoLabels]

(***************************************************************************)
(* hashNameAndLabels: the 64-bit FNV-1a digest of the name and of the      *)
(* eight bytes of the label signature, computed from what was written to   *)
(* the shared buffers.  64-bit words are numbers in limbs.                 *)
(***************************************************************************)
\* The bytes 0x20 to 0x7e in order; "\\x60" stands for the grave accent.
Printable ==
  <<" ", "!", "\"", "#", "$", "%", "&", "'", "(", ")", "*", "+", ",", "-",
    ".", "/", "0", "1", "2", "3", "4", "5", "6", "7", "8", "9", ":", ";",
    "<", "=", ">", "?", "@", "A", "B", "C", "D", "E", "F", "G", "H", "I",
    "J", "K", "L", "M", "N", "O", "P", "Q", "R", "S", "T", "U", "V", "W",
    "X", "Y", "Z", "[", "\\", "]", "^", "_", "\\x60", "a", "b", "c", "d", "e",
    "f", "g", "h", "i", "j", "k", "l", "m", "n", "o", "p", "q", "r", "s",
    "t", "u", "v", "w", "x", "y", "z", "{", "|", "}", "~">>

\* The byte of a character; BadByte stands for 0xff.
ByteOf(c) == IF c = BadByte THEN 255 ELSE 31 + IndexOf(Printable, c)

\* offset64 and prime64 of package hash/fnv
FNVOffset == <<8997, 2116, 29586, 24468, 12>>
FNVPrime == <<435, 0, 1024>>

RECURSIVE Xor(_, _)
\* a ^ b
Xor(a, b) ==
  IF a = 0 THEN b
  ELSE IF b = 0 THEN a
  ELSE ((a + b) % 2) + 2 * Xor(a \div 2, b \div 2)

\* The low 64 bits of a
Mod64(a) ==
  BTrim([i \in 1..(IF Len(a) < 5 THEN Len(a) ELSE 5) |->
           IF i = 5 THEN a[i] % 16 ELSE a[i]])

\* h ^= b for a byte b
XorByte(h, b) ==
  BTrim([i \in 1..(IF Len(h) = 0 THEN 1 ELSE Len(h)) |->
           IF i = 1 THEN Limb(h, 1) - (Limb(h, 1) % 256)
                         + Xor(Limb(h, 1) % 256, b)
           ELSE h[i]])

\* One byte of the FNV-1a loop: "hash ^= c; hash *= prime64"
FNVByte(h, b) == Mod64(BMul(XorByte(h, b), FNVPrime))

RECURSIVE FNVBytes(_, _, _)
\* (*sum64a).Write from byte i of bytes on
FNVBytes(h, bytes, i) ==
  IF i > Len(bytes) \/ Len(h) < 0 THEN h
  ELSE FNVBytes(FNVByte(h, bytes[i]), bytes, i + 1)

FNVString(h, s) == FNVBytes(h, [i \in 1..Len(s) |-> ByteOf(s[i])], 1)

\* binary.BigEndian.PutUint64: the eight bytes of w, the highest first
PutUint64(w) == [i \in 1..8 |-> Limb(BShr(w, 8 * (8 - i)), 1) % 256]

RECURSIVE StrLessFrom(_, _, _)
StrLessFrom(a, b, i) ==
  IF i > Len(b) THEN FALSE
  ELSE IF i > Len(a) THEN TRUE
  ELSE IF ByteOf(a[i]) # ByteOf(b[i]) THEN ByteOf(a[i]) < ByteOf(b[i])
  ELSE StrLessFrom(a, b, i + 1)
\* a < b of two strings
StrLess(a, b) == StrLessFrom(a, b, 1)

RECURSIVE SortedNames(_)
\* sort.Strings of a set of label names
SortedNames(S) ==
  IF S = {} THEN <<>>
  ELSE <<CHOOSE k \in S : \A o \in S \ {k} : StrLess(k, o)>>
       \o SortedNames(S \ {CHOOSE k \in S : \A o \in S \ {k} : StrLess(k, o)})

\* hashAdd name, separator, value, separator (the separator is 0xff)
SignatureAdd(h, name, value) ==
  FNVByte(FNVString(FNVByte(FNVString(h, name), 255), value), 255)

RECURSIVE SignatureLoop(_, _, _, _)
SignatureLoop(h, labels, names, i) ==
  IF i > Len(names) \/ Len(h) < 0 THEN h
  ELSE SignatureLoop(SignatureAdd(h, names[i], labels[names[i]]), labels,
                     names, i + 1)

\* model.LabelsToSignature of prometheus/common: FNV-1a over the labels in
\* the order of their names; the offset for no labels.
labelsToSignature(labels) ==
  IF DOMAIN labels = {} THEN FNVOffset
  ELSE SignatureLoop(FNVOffset, labels, SortedNames(DOMAIN labels), 1)

\* hash.Sum64() after Reset, Write(strBuf) and Write(intBuf)
sum64(scratch) ==
  FNVBytes(FNVString(FNVOffset, scratch.strBuf), PutUint64(scratch.intBuf), 1)

\* Label sets and buffer contents of the inputs below, digested once.
KnownLabels ==
  {NoLabels, PutLabel(NoLabels, <<"t">>, <<"v">>),
   PutLabel(NoLabels, <<"t">>, <<"p">>)}
Signatures == [l \in KnownLabels |-> labelsToSignature(l)]

LabelsToSignature(labels) ==
  IF labels \in KnownLabels THEN Signatures[labels]
  ELSE labelsToSignature(labels)

HashWrite(name, labels) ==
  [strBuf |-> name, intBuf |-> LabelsToSignature(labels)]

KnownNames ==
  {<<"a">>, <<"e">>, <<"E", "r", "h", "m", "F", "u", "r", "k", "r", "j", "b", "F", "e">>,
   <<"A", "p", "s", "C", "t", "i", "c", "y", "f", "j", "r", "c", "d">>}
KnownScratch == {HashWrite(n, l) : n \in KnownNames, l \in KnownLabels}
Digests == [sc \in KnownScratch |-> sum64(sc)]

HashSum64(scratch) ==
  IF scratch \in KnownScratch THEN Digests[scratch] ELSE sum64(scratch)

hashNameAndLabels(name, labels) == HashSum64(HashWrite(name, labels))

(***************************************************************************)
(* The metric registry (prometheus.Register): a descriptor is refused when *)
(* one with the same name and label values is registered, or when one of   *)
(* the same name has other label names or another help string.             *)
(***************************************************************************)
RegisterFails(reg, name, labels, help) ==
  \E d \in reg :
    /\ d.name = name
    /\ \/ d.labels = labels
       \/ DOMAIN d.labels # DOMAIN labels
       \/ d.help # help

Registered(reg, name, labels, help) ==
  reg \cup {[name |-> name, labels |-> labels, help |-> help]}

NewMetric(kind, name, labels, help, tuning) ==
  [kind |-> kind, name |-> name, labels |-> labels, help |-> help,
   tuning |-> tuning, value |-> Zero, obs |-> <<>>]

PutElement(els, c, fp, h) ==
  [els EXCEPT ![c] = [x \in DOMAIN @ \cup {fp} |-> IF x = fp THEN h ELSE @[x]]]

(***************************************************************************)
(* The four container Get methods.  st holds Elements, registry, metrics;  *)
(* the result adds the returned handle (0 for nil) and the error.          *)
(***************************************************************************)
GetResult(els, reg, mets, handle, err) ==
  [Elements |-> els, registry |-> reg, metrics |-> mets,
   handle |-> handle, err |-> err]

Hit(st, c, hash) ==
  GetResult(st.Elements, st.registry, st.metrics, st.Elements[c][hash], FALSE)

Refused(st) == GetResult(st.Elements, st.registry, st.metrics, 0, TRUE)

\* Register succeeded: the new object is stored under hash and returned.
Stored(st, c, hash, metricName, labels, help, tuning) ==
  GetResult(PutElement(st.Elements, c, hash, Len(st.metrics) + 1),
            Registered(st.registry, metricName, labels, help),
            Append(st.metrics, NewMetric(c, metricName, labels, help, tuning)),
            Len(st.metrics) + 1, FALSE)

\* The new object is stored under hash although Register refused it.
StoredUnregistered(st, c, hash, metricName, labels, help, tuning) ==
  GetResult(PutElement(st.Elements, c, hash, Len(st.metrics) + 1),
            st.registry,
            Append(st.metrics, NewMetric(c, metricName, labels, help, tuning)),
            0, TRUE)

\* A Get that replaces a cached counter whose help text differs.
CounterContainerGetRefresh(st, hash, metricName, labels, help) ==
  IF /\ hash \in DOMAIN st.Elements["counter"]
     /\ st.metrics[st.Elements["counter"][hash]].help = help
  THEN Hit(st, "counter", hash)
  ELSE Stored(st, "counter", hash, metricName, labels, help, <<>>)

CounterContainerGet(st, hash, metricName, labels, help) ==
  IF hash \in DOMAIN st.Elements["counter"]
  THEN Hit(st, "counter", hash)
  ELSE IF RegisterFails(st.registry, metricName, labels, help)
  THEN Refused(st)
  ELSE Stored(st, "counter", hash, metricName, labels, help, <<>>)

\* A Get that stores the new gauge without consulting the registry.
GaugeContainerGetUnregistered(st, hash, metricName, labels, help) ==
  IF hash \in DOMAIN st.Elements["gauge"]
  THEN Hit(st, "gauge", hash)
  ELSE GetResult(PutElement(st.Elements, "gauge", hash, Len(st.metrics) + 1),
                 st.registry,
                 Append(st.metrics,
                        NewMetric("gauge", metricName, labels, help, <<>>)),
                 Len(st.metrics) + 1, FALSE)

GaugeContainerGet(st, hash, metricName, labels, help) ==
  IF hash \in DOMAIN st.Elements["gauge"]
  THEN Hit(st, "gauge", hash)
  ELSE IF RegisterFails(st.registry, metricName, labels, help)
  THEN Refused(st)
  ELSE Stored(st, "gauge", hash, metricName, labels, help, <<>>)

\* Lines 134-137.
SummaryQuantiles(mapping) ==
  IF Len(mapping.Quantiles) > 0 THEN mapping.Quantiles ELSE DefaultQuantiles

SummaryContainerGet(st, hash, metricName, labels, help, mapping) ==
  IF hash \in DOMAIN st.Elements["summary"]
  THEN Hit(st, "summary", hash)
  ELSE IF RegisterFails(st.registry, metricName, labels, help)
  THEN Refused(st)
  ELSE Stored(st, "summary", hash, metricName, labels, help,
              SummaryQuantiles(mapping))

\* Lines 173-176.
HistogramBuckets(mapping) ==
  IF Len(mapping.Buckets) > 0 THEN mapping.Buckets ELSE DefaultBuckets

\* The histogram is stored in Elements before it is registered (line 184).
HistogramContainerGet(st, hash, metricName, labels, help, mapping) ==
  IF hash \in DOMAIN st.Elements["histogram"]
  THEN Hit(st, "histogram", hash)
  ELSE IF RegisterFails(st.registry, metricName, labels, help)
  THEN StoredUnregistered(st, "histogram", hash, metricName, labels, help,
                          HistogramBuckets(mapping))
  ELSE Stored(st, "histogram", hash, metricName, labels, help,
              HistogramBuckets(mapping))

(***************************************************************************)
(* Metric updates made by the dispatcher on a handle it obtained.          *)
(***************************************************************************)
\* counter.Add(v), gauge.Add(v), gauge.Set(v)
CounterAdd(m, v) == [m EXCEPT !.value = FAdd(@, v)]
GaugeAdd(m, v) == [m EXCEPT !.value = FAdd(@, v)]
GaugeSet(m, v) == [m EXCEPT !.value = v]
\* A dispatcher that ignores the relative flag.
GaugeUpdateAlwaysAdd(m, ev) == GaugeAdd(m, ev.value)

GaugeUpdate(m, ev) ==
  IF ev.relative THEN GaugeAdd(m, ev.value) ELSE GaugeSet(m, ev.value)
\* A histogram that observes the value in milliseconds.
HistogramObserveRaw(m, v) == [m EXCEPT !.obs = Append(@, v)]

\* Line 352: histogram.Observe(event.Value() / 1000)
HistogramObserve(m, v) == [m EXCEPT !.obs = Append(@, FDiv(v, FromInt(1000)))]
SummaryObserve(m, v) == [m EXCEPT !.obs = Append(@, v)]

ApplyEvent(m, container, ev) ==
  CASE container = "counter" -> CounterAdd(m, ev.value)
    [] container = "gauge" -> GaugeUpdate(m, ev)
    [] container = "histogram" -> HistogramObserve(m, ev.value)
    [] container = "summary" -> SummaryObserve(m, ev.value)

(***************************************************************************)
(* Inputs.                                                                 *)
(***************************************************************************)
\* Datagrams a sender may deliver.
Packets ==
  {
    \* counter, gauge on the same identity, negative counter, counter
    <<"a", ":", "1", "|", "c", ":", "2", "|", "g", ":", "-", "1", "|", "c", ":", "1", "|", "c">>,
    \* relative, absolute, relative gauge
    <<"a", ":", "+", "5", "|", "g", ":", "1", "0", "|", "g", ":", "-", "2", "|", "g">>,
    \* timer sampled at 0.5
    <<"a", ":", "3", "|", "m", "s", "|", "@", "0", ".", "5">>,
    \* mapped onto a: histogram, counter, summary
    <<"b", ":", "4", "|", "m", "s", ":", "1", "|", "c", "\n", "s", ":", "4", "|", "m", "s">>,
    \* dropped by the policy; policy label over an event label
    <<"d", ":", "-", "1", "|", "c", "\n", "e", ":", "1", "|", "g", "|", "#", "t", ":", "v">>,
    \* tag with an empty key
    <<"a", ":", "1", "|", "c", "|", "#", ":", "v">>,
    \* two names with the same fingerprint: counter, gauge, relative gauge
    <<"E", "r", "h", "m", "F", "u", "r", "k", "r", "j", "b", "F", "e", ":", "1", "|", "c">>
      \o <<"\n">> \o <<"A", "p", "s", "C", "t", "i", "c", "y", "f", "j", "r", "c", "d", ":", "1", "|", "g">>
      \o <<"\n">> \o <<"E", "r", "h", "m", "F", "u", "r", "k", "r", "j", "b", "F", "e", ":", "+", "2", "|", "g">>,
    \* no colon: an empty batch
    <<"z">>
  }

\* Lines a TCP client may send.
TcpLines ==
  {
    \* labelled counter
    <<"a", ":", "2", "|", "c", "|", "#", "t", ":", "v">>,
    \* no colon: an empty batch
    <<"z">>
  }

(***************************************************************************)
(* Listeners.                                                              *)
(***************************************************************************)
\* The loop of handlePacket over the lines of one datagram.
LinesStep(acc, r) ==
  [events |-> acc.events \o r.events,
   stats |-> AddStats(acc.stats, r.stats),
   panic |-> r.panic,
   lines |-> acc.lines + 1]

RECURSIVE LinesLoop(_, _, _, _)
LinesLoop(lines, i, acc, machine) ==
  IF i > Len(lines) \/ acc.panic THEN acc
  ELSE LinesLoop(lines, i + 1, LinesStep(acc, lineToEvents(lines[i], machine)),
                 machine)

\* handlePacket up to its send: the events of the lines of the datagram.
handlePacket(packet, machine) ==
  LinesLoop(Split(packet, "\n"), 1,
            [events |-> <<>>, stats |-> NoStats, panic |-> FALSE, lines |-> 0],
            machine)

\* The datagrams and lines of the inputs below, parsed once for each
\* machine.
PacketEvents ==
  [machine \in Machines |->
     [packet \in Packets |-> handlePacket(packet, machine)]]
LineEvents ==
  [machine \in Machines |->
     [line \in TcpLines |-> lineToEvents(line, machine)]]

NetStatNames ==
  {"udpPackets", "linesReceived", "tcpConnections", "tcpErrors",
   "tcpLineTooLong"}

\* "e <- events": the send completes when the channel has room.
ChannelSend(q, events) == Append(q, events)

\* r is what handlePacket computed for the datagram read.
UDPParsed(r) ==
  /\ inputs' = inputs + 1
  /\ parseStats' = AddStats(parseStats, r.stats)
  /\ netStats' = [netStats EXCEPT !["udpPackets"] = @ + 1,
                                  !["linesReceived"] = @ + r.lines]
  /\ IF r.panic
     THEN /\ proc' = "panic"
          /\ udp' = udp
     ELSE /\ proc' = proc
          /\ udp' = [pc |-> "send", events |-> r.events]

\* StatsDUDPListener.Listen reads a datagram; handlePacket parses it.
UDPRead ==
  /\ proc = "running"
  /\ udp.pc = "read"
  /\ inputs < MaxInputs
  /\ \E packet \in Packets, machine \in Machines :
       UDPParsed(PacketEvents[machine][packet])
  /\ UNCHANGED <<conns, chanVars, dispVars, metricVars, defaultsTimerType,
                 parseVars>>

\* A listener that fingerprints its events itself before sending them.
UDPSendFingerprinting ==
  /\ proc = "running"
  /\ udp.pc = "send"
  /\ ~closed
  /\ Len(queue) < QueueCap
  /\ queue' = Append(queue, udp.events)
  /\ pushed' = Append(pushed, udp.events)
  /\ closed' = closed
  /\ udp' = [pc |-> "read", events |-> <<>>]
  /\ inGet' = inGet \cup {UDPThread}
  /\ hashScratch' = IF udp.events = <<>> THEN hashScratch
                    ELSE HashWrite(udp.events[1].metricName,
                                   udp.events[1].labels)
  /\ UNCHANGED <<proc, conns, parseStats, netStats, inputs, disp, lastGet,
                 taken, handled, metricVars, defaultsTimerType, parseVars>>

\* A send on a closed channel panics.
SendOnClosed ==
  /\ proc' = "panic"
  /\ UNCHANGED <<udp, conns, chanVars>>

\* handlePacket's "e <- events".
UDPSend ==
  /\ proc = "running"
  /\ udp.pc = "send"
  /\ IF closed THEN SendOnClosed
     ELSE /\ Len(queue) < QueueCap
          /\ queue' = ChannelSend(queue, udp.events)
          /\ pushed' = Append(pushed, udp.events)
          /\ udp' = [pc |-> "read", events |-> <<>>]
          /\ UNCHANGED <<proc, conns, closed>>
  /\ UNCHANGED <<parseStats, netStats, inputs, dispVars, metricVars,
                 defaultsTimerType, parseVars>>

\* ReadFromUDP fails: log.Fatal ends the process.
UDPReadError ==
  /\ proc = "running"
  /\ udp.pc = "read"
  /\ proc' = "fatal"
  /\ UNCHANGED <<netVars, chanVars, dispVars, metricVars, defaultsTimerType,
                 parseVars>>

\* StatsDTCPListener.Listen accepts a connection and starts handleConn.
TCPAccept ==
  /\ proc = "running"
  /\ \E c \in ConnIds :
       /\ conns[c].pc = "idle"
       /\ conns' = [conns EXCEPT ![c] = [pc |-> "read", events |-> <<>>]]
  /\ netStats' = [netStats EXCEPT !["tcpConnections"] = @ + 1]
  /\ UNCHANGED <<proc, udp, parseStats, inputs, chanVars, dispVars, metricVars,
                 defaultsTimerType, parseVars>>

\* AcceptTCP fails: log.Fatalf ends the process.
TCPAcceptError ==
  /\ proc = "running"
  /\ proc' = "fatal"
  /\ UNCHANGED <<netVars, chanVars, dispVars, metricVars, defaultsTimerType,
                 parseVars>>

\* r is what lineToEvents computed for the line read on connection c.
ConnParsed(c, r) ==
  /\ inputs' = inputs + 1
  /\ parseStats' = AddStats(parseStats, r.stats)
  /\ netStats' = [netStats EXCEPT !["linesReceived"] = @ + 1]
  /\ IF r.panic
     THEN /\ proc' = "panic"
          /\ conns' = conns
     ELSE /\ proc' = proc
          /\ conns' = [conns EXCEPT ![c] = [pc |-> "send", events |-> r.events]]

\* handleConn reads one line and parses it.
ConnReadLine ==
  /\ proc = "running"
  /\ inputs < MaxInputs
  /\ \E c \in ConnIds, line \in TcpLines, machine \in Machines :
       /\ conns[c].pc = "read"
       /\ ConnParsed(c, LineEvents[machine][line])
  /\ UNCHANGED <<udp, chanVars, dispVars, metricVars, defaultsTimerType,
                 parseVars>>

\* handleConn's "e <- lineToEvents(line)".
ConnSend ==
  /\ proc = "running"
  /\ \E c \in ConnIds :
       /\ conns[c].pc = "send"
       /\ IF closed THEN SendOnClosed
          ELSE /\ Len(queue) < QueueCap
               /\ queue' = ChannelSend(queue, conns[c].events)
               /\ pushed' = Append(pushed, conns[c].events)
               /\ conns' = [conns EXCEPT ![c] =
                              [pc |-> "read", events |-> <<>>]]
               /\ UNCHANGED <<proc, udp, closed>>
  /\ UNCHANGED <<parseStats, netStats, inputs, dispVars, metricVars,
                 defaultsTimerType, parseVars>>

\* ReadLine ends the connection: EOF, a read error, or a line too long.
ConnClose ==
  /\ proc = "running"
  /\ \E c \in ConnIds, why \in {"eof", "tcpErrors", "tcpLineTooLong"} :
       /\ conns[c].pc = "read"
       /\ conns' = [conns EXCEPT ![c] = [pc |-> "closed", events |-> <<>>]]
       /\ netStats' = IF why = "eof" THEN netStats
                      ELSE [netStats EXCEPT ![why] = @ + 1]
  /\ UNCHANGED <<proc, udp, parseStats, inputs, chanVars, dispVars, metricVars,
                 defaultsTimerType, parseVars>>

(***************************************************************************)
(* Dispatcher: Exporter.Listen.                                            *)
(***************************************************************************)
NoCall == [container |-> "none"]
Idle == [pc |-> "recv", events |-> <<>>, i |-> 0, call |-> NoCall]

\* The position after the event at d.i: the next event, or the next receive.
Advance(d) ==
  IF d.i >= Len(d.events) THEN Idle
  ELSE [pc |-> "event", events |-> d.events, i |-> d.i + 1, call |-> NoCall]

\* An overlay in which the event's own value wins on a shared key.
OverlayEventWins(eventLabels, policyLabels) ==
  [k \in DOMAIN eventLabels \cup DOMAIN policyLabels |->
     IF k \in DOMAIN eventLabels THEN eventLabels[k] ELSE policyLabels[k]]

\* Lines 281-283: the policy's labels are written over the event's.
Overlay(eventLabels, policyLabels) ==
  [k \in DOMAIN eventLabels \cup DOMAIN policyLabels |->
     IF k \in DOMAIN policyLabels THEN policyLabels[k] ELSE eventLabels[k]]

\* Lines 267-288: m is what getMapping returned for the event.
Resolved(event, m) ==
  [mapping |-> m.mapping,
   present |-> m.present,
   help |-> IF m.mapping.HelpText = "" THEN defaultHelp
            ELSE m.mapping.HelpText,
   metricName |-> IF m.present THEN escapeMetricName(m.mapping.Name).val
                  ELSE escapeMetricName(event.metricName).val,
   panic |-> IF m.present THEN escapeMetricName(m.mapping.Name).panic
             ELSE escapeMetricName(event.metricName).panic,
   labels |-> IF m.present THEN Overlay(event.labels, m.labels)
              ELSE event.labels]

\* Lines 262-288: mapping, help, name and labels of one event.
Resolve(event) == Resolved(event, getMapping(event.metricName, event.kind))

\* Lines 335-343 and the switch on t.
EffectiveTimerType(mapping, defaultType) ==
  IF mapping.TimerType = timerTypeDefault THEN defaultType
  ELSE mapping.TimerType

\* The switch on t (lines 343-376); its default arm panics.
TimerSwitch(t) ==
  CASE t = timerTypeHistogram -> "histogram"
    [] t \in {timerTypeDefault, timerTypeSummary} -> "summary"
    [] OTHER -> "panic"

TimerContainer(mapping, defaultType) ==
  TimerSwitch(EffectiveTimerType(mapping, defaultType))

ContainerOf(event, mapping, defaultType) ==
  CASE event.kind = "counter" -> "counter"
    [] event.kind = "gauge" -> "gauge"
    [] event.kind = "timer" -> TimerContainer(mapping, defaultType)
    [] OTHER -> "none"

Done(event, outcome) == Append(handled, [ev |-> event, outcome |-> outcome])

\* A dispatcher that lets every counter value through.
RejectNegativeNever(event) == FALSE

\* Lines 291-298: a counter event with a negative value is not applied.
RejectNegative(event) == event.kind = "counter" /\ FNegative(event.value)

\* Listen has returned: the channel was closed and empty.
Returned == [pc |-> "returned", events |-> <<>>, i |-> 0, call |-> NoCall]

\* "events, ok := <-e": a batch, or ok = false from a channel that is closed
\* and empty, on which Listen returns.  The receive blocks on an open and
\* empty channel.
DispatcherReceive ==
  /\ proc = "running"
  /\ disp.pc = "recv"
  /\ IF queue # <<>>
     THEN /\ queue' = Tail(queue)
          /\ disp' = IF Head(queue) = <<>> THEN Idle
                     ELSE [pc |-> "event", events |-> Head(queue), i |-> 1,
                           call |-> NoCall]
          /\ taken' = taken + 1
     ELSE /\ closed
          /\ disp' = Returned
          /\ UNCHANGED <<queue, taken>>
  /\ UNCHANGED <<proc, netVars, pushed, closed, hashScratch, inGet, lastGet,
                 handled, metricVars, defaultsTimerType, parseVars>>

\* The call of a container's Get up to the point where hashNameAndLabels
\* has written name and labels to the shared buffers.
EnterGet(r, container) ==
  /\ hashScratch' = HashWrite(r.metricName, r.labels)
  /\ inGet' = inGet \cup {Dispatcher}
  /\ disp' = [disp EXCEPT !.pc = "get", !.call =
                [container |-> container, metricName |-> r.metricName,
                 labels |-> r.labels, help |-> r.help, mapping |-> r.mapping]]
  /\ UNCHANGED <<proc, eventStats, handled>>

\* A dispatcher that counts a dropped event as unmapped.
DropEventCounted(event) ==
  /\ disp' = Advance(disp)
  /\ handled' = Done(event, "dropped")
  /\ eventsUnmapped' = eventsUnmapped + 1
  /\ UNCHANGED <<proc, hashScratch, inGet, eventStats>>

\* Lines 271-273: "continue" for an event the policy drops.
DropEvent(event) ==
  /\ disp' = Advance(disp)
  /\ handled' = Done(event, "dropped")
  /\ UNCHANGED <<proc, hashScratch, inGet, eventStats, eventsUnmapped>>

\* A panic of the dispatcher's goroutine ends the process.
DispatchPanic ==
  /\ proc' = "panic"
  /\ UNCHANGED <<disp, handled, hashScratch, inGet, eventStats>>

\* Lines 271-381 for one event; r is its resolution.
DispatchResolved(event, r) ==
  IF r.mapping.Action = actionTypeDrop
  THEN DropEvent(event)
  ELSE /\ eventsUnmapped' = IF r.present THEN eventsUnmapped
                            ELSE eventsUnmapped + 1
       /\ IF r.panic
          THEN DispatchPanic
          ELSE IF RejectNegative(event)
          THEN /\ eventStats' = Bump(eventStats, "illegal_negative_counter")
               /\ disp' = Advance(disp)
               /\ handled' = Done(event, "illegal_negative_counter")
               /\ UNCHANGED <<proc, hashScratch, inGet>>
          ELSE IF event.kind \notin {"counter", "gauge", "timer"}
          THEN /\ eventStats' = Bump(eventStats, "illegal")
               /\ disp' = Advance(disp)
               /\ handled' = Done(event, "illegal")
               /\ UNCHANGED <<proc, hashScratch, inGet>>
          ELSE IF ContainerOf(event, r.mapping, defaultsTimerType) = "panic"
          THEN DispatchPanic
          ELSE EnterGet(r, ContainerOf(event, r.mapping, defaultsTimerType))

\* One iteration of the loop over the batch, up to the point where a
\* container Get has written name and labels to the shared hash buffers.
DispatchEvent ==
  /\ proc = "running"
  /\ disp.pc = "event"
  /\ DispatchResolved(disp.events[disp.i], Resolve(disp.events[disp.i]))
  /\ UNCHANGED <<netVars, chanVars, taken, lastGet, Elements, registry,
                 metrics, conflictingEventStats, defaultsTimerType, parseVars>>

ContainerGet(st, call, hash) ==
  CASE call.container = "counter" ->
         CounterContainerGet(st, hash, call.metricName, call.labels, call.help)
    [] call.container = "gauge" ->
         GaugeContainerGet(st, hash, call.metricName, call.labels, call.help)
    [] call.container = "summary" ->
         SummaryContainerGet(st, hash, call.metricName, call.labels, call.help,
                             call.mapping)
    [] call.container = "histogram" ->
         HistogramContainerGet(st, hash, call.metricName, call.labels,
                               call.help, call.mapping)

\* A dispatcher that counts a refused event as conflicting and still records
\* its value, on the metric built last.
GetReturnedRecording(event, call, hash, g) ==
  /\ Elements' = g.Elements
  /\ registry' = g.registry
  /\ lastGet' = [container |-> call.container, hash |-> hash,
                 handle |-> g.handle, err |-> g.err,
                 hit |-> hash \in DOMAIN Elements[call.container]]
  /\ IF g.err
     THEN /\ metrics' = [g.metrics EXCEPT ![Len(g.metrics)] =
                           ApplyEvent(@, call.container, event)]
          /\ conflictingEventStats' = Bump(conflictingEventStats, event.kind)
          /\ eventStats' = eventStats
          /\ handled' = Done(event, "conflict")
     ELSE /\ metrics' = [g.metrics EXCEPT ![g.handle] =
                           ApplyEvent(@, call.container, event)]
          /\ eventStats' = Bump(eventStats, event.kind)
          /\ conflictingEventStats' = conflictingEventStats
          /\ handled' = Done(event, "ok")

\* What the dispatcher does with the result g of the Get for the event.
GetReturned(event, call, hash, g) ==
  /\ Elements' = g.Elements
  /\ registry' = g.registry
  /\ lastGet' = [container |-> call.container, hash |-> hash,
                 handle |-> g.handle, err |-> g.err,
                 hit |-> hash \in DOMAIN Elements[call.container]]
  /\ IF g.err
     THEN /\ metrics' = g.metrics
          /\ conflictingEventStats' = Bump(conflictingEventStats, event.kind)
          /\ eventStats' = eventStats
          /\ handled' = Done(event, "conflict")
     ELSE /\ metrics' = [g.metrics EXCEPT ![g.handle] =
                           ApplyEvent(@, call.container, event)]
          /\ eventStats' = Bump(eventStats, event.kind)
          /\ conflictingEventStats' = conflictingEventStats
          /\ handled' = Done(event, "ok")

\* The rest of the iteration: the digest, the container's Get, and the
\* update or the conflict count.
DispatchGet ==
  /\ proc = "running"
  /\ disp.pc = "get"
  /\ GetReturned(disp.events[disp.i], disp.call, HashSum64(hashScratch),
                 ContainerGet([Elements |-> Elements, registry |-> registry,
                               metrics |-> metrics],
                              disp.call, HashSum64(hashScratch)))
  /\ inGet' = inGet \ {Dispatcher}
  /\ disp' = Advance(disp)
  /\ UNCHANGED <<proc, netVars, chanVars, taken, hashScratch, eventsUnmapped,
                 defaultsTimerType, parseVars>>

(***************************************************************************)
(* Specification of the running exporter.                                  *)
(***************************************************************************)
NoInput == [raw |-> TRUE, line |-> <<>>]
NoResult == [events |-> <<>>, stats |-> NoStats, panic |-> FALSE, ran |-> FALSE]
NoGet == [container |-> "none", hash |-> <<>>, handle |-> 0, err |-> FALSE,
          hit |-> FALSE]

InitSystem ==
  /\ proc = "running"
  /\ udp = [pc |-> "read", events |-> <<>>]
  /\ conns = [c \in ConnIds |-> [pc |-> "idle", events |-> <<>>]]
  /\ queue = <<>>
  /\ closed = FALSE
  /\ disp = Idle
  /\ hashScratch = [strBuf |-> <<>>, intBuf |-> <<>>]
  /\ inGet = {}
  /\ lastGet = NoGet
  /\ Elements = [c \in Containers |-> <<>>]
  /\ registry = {}
  /\ metrics = <<>>
  /\ eventStats = [k \in {"counter", "gauge", "timer",
                          "illegal_negative_counter", "illegal"} |-> 0]
  /\ conflictingEventStats = [k \in {"counter", "gauge", "timer"} |-> 0]
  /\ eventsUnmapped = 0
  /\ parseStats = NoStats
  /\ netStats = [k \in NetStatNames |-> 0]
  /\ inputs = 0
  /\ pushed = <<>>
  /\ taken = 0
  /\ handled = <<>>

Init ==
  /\ InitSystem
  /\ defaultsTimerType \in {timerTypeDefault, timerTypeHistogram}
  /\ pin = NoInput
  /\ pres = NoResult

Next ==
  \/ UDPRead
  \/ UDPSend
  \/ UDPReadError
  \/ TCPAccept
  \/ TCPAcceptError
  \/ ConnReadLine
  \/ ConnSend
  \/ ConnClose
  \/ DispatcherReceive
  \/ DispatchEvent
  \/ DispatchGet

Spec == Init /\ [][Next]_vars

(***************************************************************************)
(* Specification of the line parser alone: one input line, drawn from the  *)
(* lines below, and one call of lineToEvents on it.                        *)
(***************************************************************************)
RECURSIVE Join(_, _)
Join(pieces, sep) ==
  IF Len(pieces) = 0 THEN <<>>
  ELSE IF Len(pieces) = 1 THEN pieces[1]
  ELSE pieces[1] \o <<sep>> \o Join(Tail(pieces), sep)

RenderSample(sm) == Join(<<sm.value, sm.type>> \o sm.opts, "|")
RenderLine(in) ==
  in.name \o <<":">> \o
  Join([i \in 1..Len(in.samples) |-> RenderSample(in.samples[i])], ":")
LineOf(in) == IF in.raw THEN in.line ELSE RenderLine(in)

RECURSIVE SeqsUpTo(_, _)
SeqsUpTo(S, n) ==
  IF n = 0 THEN {<<>>}
  ELSE LET shorter == SeqsUpTo(S, n - 1)
       IN  shorter \cup {Append(q, x) : q \in shorter, x \in S}

SupportedTypes == {<<"c">>, <<"g">>, <<"m", "s">>, <<"h">>}
InputTypes == SupportedTypes \cup {<<"s">>, <<"z">>}
InputValues == {<<"1">>, <<"-", "3">>, <<"1", "0", "0">>, <<"x">>}
PlainValues == {<<"1">>, <<"+", "5">>, <<"-", "3">>, <<"2", ".", "5">>, <<"x">>}
InputOpts ==
  {<<"@", "0", ".", "2", "5">>, <<"@", "0", ".", "5">>, <<"@", "0", ".", "6">>,
   <<"@", "0", ".", "1">>, <<"@", "0">>, <<"@", "2">>,
   <<"@", "-", "0", ".", "5">>, <<"@", "x">>,
   <<"#", "t", ":", "v">>, <<"#", ":", "v">>,
   <<"#", "h", ":", ",", "e", ":", "p">>,
   <<"#", "n", ",", "9", ".", "k", ":", "v">>, <<"x">>, <<>>}

\* One sample with up to two optional components.
RichInputs ==
  {[raw |-> FALSE, name |-> <<"a">>,
    samples |-> <<[value |-> v, type |-> t, opts |-> o]>>] :
     v \in InputValues, t \in InputTypes, o \in SeqsUpTo(InputOpts, 2)}

\* Up to MaxSamples samples without optional components.
PlainInputs ==
  {[raw |-> FALSE, name |-> n, samples |-> ss] :
     n \in {<<"a">>, <<"9", ".", "b">>},
     ss \in SeqsUpTo({[value |-> v, type |-> t, opts |-> <<>>] :
                        v \in PlainValues,
                        t \in SupportedTypes \cup {<<"s">>}},
                     MaxSamples) \ {<<>>}}

RawInputs ==
  {[raw |-> TRUE, line |-> l] :
     l \in {<<>>, <<"a">>, <<":", "1", "|", "c">>, <<"a", ":">>,
            <<"a", ":", "1">>, <<"a", BadByte, ":", "1", "|", "c">>,
            <<"a", ":", "1", "|", "c", "|", "@", "1", "|", "#", "t", ":", "v",
              "|", "x">>,
            <<"a", ":", "1", "|", "c", ":", "2", "|", "g", "|", "#", "t", ":",
              "v">>}}

\* Two samples: the first with optional components that may be empty, the
\* second plain.
EmptyComponentInputs ==
  {[raw |-> FALSE, name |-> <<"a">>,
    samples |-> <<[value |-> v, type |-> t, opts |-> o],
                  [value |-> <<"1">>, type |-> <<"g">>, opts |-> <<>>]>>] :
     v \in {<<"1">>, <<"x">>}, t \in {<<"c">>, <<"m", "s">>},
     o \in SeqsUpTo({<<"@", "0", ".", "5">>, <<>>}, 2)}

\* Values and factors in the other notations ParseFloat reads: exponents,
\* hexadecimal, underscores, infinity and NaN, and numbers out of range.
NumeralValues ==
  {<<"5">>, <<"1", "e", "2">>, <<"0", "x", "1", "p", "-", "2">>,
   <<"1", "_", "0">>, <<"i", "n", "f">>, <<"n", "a", "n">>,
   <<"1", "e", "4", "0", "0">>, <<"1", "e">>, <<"0", "x", "1">>}
NumeralOpts ==
  {<<"@", "0", ".", "1">>, <<"@", "0", ".", "6">>,
   <<"@", "0", ".", "0", "0", "0", "3", "2">>, <<"@", "5", "e", "-", "1">>,
   <<"@", "1", "e", "4", "0", "0">>,
   <<"@", "0", ".", "0", "0", "0", "0", "0", "0", "0", "0", "0", "0", "0", "0", "0", "0", "0", "0", "0", "0", "1">>,
   <<"@", "n", "a", "n">>}

\* Values that ParseFloat returns an error for.
MalformedValues == {<<"x">>, <<"1", "e", "4", "0", "0">>, <<"1", "e">>, <<"0", "x", "1">>}

\* One sample with at most one sampling factor.
NumeralInputs ==
  {[raw |-> FALSE, name |-> <<"a">>,
    samples |-> <<[value |-> v, type |-> t, opts |-> o]>>] :
     v \in NumeralValues, t \in SupportedTypes,
     o \in {<<>>} \cup {<<f>> : f \in NumeralOpts}}

\* A timer sample with a repeat count beyond MaxRepeat: int(1 / 0.0000009)
\* is 1111111.
LargeInputs ==
  {[raw |-> FALSE, name |-> <<"a">>,
    samples |-> <<[value |-> <<"1">>, type |-> <<"m", "s">>,
                   opts |-> << <<"@", "0", ".", "0", "0", "0", "0", "0", "0", "9">> >>]>>]}

ParseInputs ==
  RichInputs \cup PlainInputs \cup RawInputs \cup EmptyComponentInputs
    \cup NumeralInputs \cup LargeInputs

ParseInit ==
  /\ InitSystem
  /\ defaultsTimerType = timerTypeDefault
  /\ pin \in ParseInputs
  /\ pres = NoResult

ParseReturned(r) ==
  pres' = [events |-> r.events, stats |-> r.stats, panic |-> r.panic,
           ran |-> TRUE]

ParseLine ==
  /\ ~pres.ran
  /\ \E machine \in Machines :
       ParseReturned(lineToEvents(LineOf(pin), machine))
  /\ UNCHANGED <<proc, netVars, chanVars, dispVars, metricVars,
                 defaultsTimerType, pin>>

ParseNext == ParseLine

ParseSpec == ParseInit /\ [][ParseNext]_vars

(***************************************************************************)
(* Claims.                                                                 *)
(***************************************************************************)
HashOfResolved(r) == hashNameAndLabels(r.metricName, r.labels)
HashOf(event) == HashOfResolved(Resolve(event))

\* C1: in each of the four containers, a Get that misses the cache and whose
\* registration fails returns an error and leaves Elements without an entry
\* for that fingerprint, so the next Get for it registers again.
C1_FailedGetNotCached ==
  lastGet.err => lastGet.hash \notin DOMAIN Elements[lastGet.container]

\* C2: lineToEvents returns for every input line; it never panics.
C2_ParserTotal == ~pres.panic

\* A counter of the name and labels of the call is registered and cached.
CounterCached(call) ==
  \E fp \in DOMAIN Elements["counter"] :
    /\ metrics[Elements["counter"][fp]].name = call.metricName
    /\ metrics[Elements["counter"][fp]].labels = call.labels

\* The gauge event of the step is refused and changes nothing.
GaugeRefused ==
  /\ lastGet'.err
  /\ conflictingEventStats'["gauge"] = conflictingEventStats["gauge"] + 1
  /\ eventStats' = eventStats
  /\ Elements' = Elements
  /\ registry' = registry
  /\ metrics' = metrics

\* The counter event of the step is added to the counter behind handle h.
CounterAdded(h, event) ==
  /\ ~lastGet'.err
  /\ lastGet'.handle = h
  /\ metrics[h].kind = "counter"
  /\ metrics[h].name = disp.call.metricName
  /\ metrics[h].labels = disp.call.labels
  /\ Elements' = Elements
  /\ metrics'[h].value = FAdd(metrics[h].value, event.value)

\* C3 as stated: a gauge event on the name and labels of a registered
\* counter gets an error from GaugeContainer.Get, is counted as a
\* conflicting gauge event and leaves the counter's cache entry, handle and
\* value unchanged; counter events on that identity keep adding to the same
\* counter.
C3_CounterSurvivesGaugeConflict ==
  [][(DispatchGet /\ CounterCached(disp.call)) =>
       /\ disp.call.container = "gauge" => GaugeRefused
       /\ disp.call.container = "counter" =>
            CounterAdded(Elements["counter"][HashSum64(hashScratch)],
                         disp.events[disp.i])]_vars

\* C3 amended: the same, as long as the gauge container holds no entry
\* under the fingerprint of that identity; a gauge of another identity with
\* the same fingerprint is handed out instead, without an error.
C3_CounterSurvivesUncachedGauge ==
  [][(DispatchGet /\ CounterCached(disp.call)) =>
       /\ (/\ disp.call.container = "gauge"
           /\ HashSum64(hashScratch) \notin DOMAIN Elements["gauge"])
            => GaugeRefused
       /\ disp.call.container = "counter" =>
            CounterAdded(Elements["counter"][HashSum64(hashScratch)],
                         disp.events[disp.i])]_vars

\* Two events have the same resolved name and labels.
SameIdentity(e, f) ==
  /\ Resolve(e).metricName = Resolve(f).metricName
  /\ Resolve(e).labels = Resolve(f).labels

C3_Witness ==
  \E i, j, k \in 1..Len(handled) :
    /\ i < j /\ j < k
    /\ handled[i].ev.kind = "counter" /\ handled[i].outcome = "ok"
    /\ handled[j].ev.kind = "gauge" /\ handled[j].outcome = "conflict"
    /\ handled[k].ev.kind = "counter" /\ handled[k].outcome = "ok"
    /\ SameIdentity(handled[i].ev, handled[j].ev)
    /\ SameIdentity(handled[k].ev, handled[j].ev)

\* C4: only the dispatcher is ever inside hashNameAndLabels or a container
\* Get, and no step of a listener or connection thread touches the hash
\* buffers, a container, the registry or a metric object.
C4_OnlyDispatcherInGet ==
  [][/\ inGet' \subseteq {Dispatcher}
     /\ (udp' # udp \/ conns' # conns) =>
          UNCHANGED <<hashScratch, inGet, lastGet, Elements, registry,
                      metrics>>]_vars

\* The dispatcher is inside a Get while the UDP listener holds a parsed
\* batch and a connection handler is running.
C4_Witness ==
  /\ inGet = {Dispatcher}
  /\ udp.pc = "send"
  /\ \E c \in ConnIds : conns[c].pc = "read"

RECURSIVE Flatten(_)
Flatten(batches) ==
  IF batches = <<>> THEN <<>> ELSE Head(batches) \o Flatten(Tail(batches))

HandledEvents == [i \in 1..Len(handled) |-> handled[i].ev]
Remaining ==
  IF disp.pc = "recv" THEN <<>>
  ELSE SubSeq(disp.events, disp.i, Len(disp.events))

\* The channel holds exactly the batches sent and not yet received, in
\* send order.
QueueIsFifo == queue = SubSeq(pushed, taken + 1, Len(pushed))

\* The events handled so far and those left of the current batch are the
\* events of the batches received, in order, each once.
HandledInOrder == HandledEvents \o Remaining = Flatten(SubSeq(pushed, 1, taken))

\* No batch is left behind: the process does not end while a batch is in
\* the channel, held by a blocked sender, or partly handled.
NoBatchLost ==
  proc # "running" =>
    /\ queue = <<>>
    /\ Remaining = <<>>
    /\ udp.pc # "send"
    /\ \A c \in ConnIds : conns[c].pc # "send"

\* C5: every batch sent on the channel is received by the dispatcher exactly
\* once and in send order, its events are handled in their order, and every
\* batch sent or held by a blocked sender gets handled.
C5_EveryBatchHandledOnceInOrder ==
  QueueIsFifo /\ HandledInOrder /\ NoBatchLost

\* The float64 of each sampling factor of the inputs, 0 read as 1.
FactorValue(opt) ==
  CASE opt = <<"@", "0", ".", "2", "5">> ->
         Double(FALSE, <<1>>, -2)
    [] opt = <<"@", "0", ".", "0", "0", "0", "0", "0", "0", "9">> ->
         Double(FALSE, <<17713, 23592, 19395, 241>>, -73)
    [] opt = <<"@", "0", ".", "5">> ->
         Double(FALSE, <<1>>, -1)
    [] opt = <<"@", "0", ".", "6">> ->
         Double(FALSE, <<13107, 26214, 19660, 153>>, -53)
    [] opt = <<"@", "0", ".", "1">> ->
         Double(FALSE, <<19661, 6553, 13107, 102>>, -55)
    [] opt = <<"@", "0">> ->
         Double(FALSE, <<1>>, 0)
    [] opt = <<"@", "2">> ->
         Double(FALSE, <<1>>, 1)
    [] opt = <<"@", "-", "0", ".", "5">> ->
         Double(TRUE, <<1>>, -1)
    [] opt = <<"@", "0", ".", "0", "0", "0", "3", "2">> ->
         Double(FALSE, <<26865, 4550, 25302, 167>>, -64)
    [] opt = <<"@", "5", "e", "-", "1">> ->
         Double(FALSE, <<1>>, -1)
    [] opt = <<"@", "1", "e", "4", "0", "0">> ->
         FInf(FALSE)
    [] opt = <<"@", "n", "a", "n">> ->
         FNaN
    [] opt = <<"@", "0", ".", "0", "0", "0", "0", "0", "0", "0", "0", "0", "0", "0", "0", "0", "0", "0", "0", "0", "0", "1">> ->
         Double(FALSE, <<13483, 10203, 969, 59>>, -114)

FactorOpts ==
  {<<"@", "0", ".", "2", "5">>,
   <<"@", "0", ".", "0", "0", "0", "0", "0", "0", "9">>,
   <<"@", "0", ".", "5">>,
   <<"@", "0", ".", "6">>,
   <<"@", "0", ".", "1">>,
   <<"@", "0">>,
   <<"@", "2">>,
   <<"@", "-", "0", ".", "5">>,
   <<"@", "0", ".", "0", "0", "0", "3", "2">>,
   <<"@", "5", "e", "-", "1">>,
   <<"@", "1", "e", "4", "0", "0">>,
   <<"@", "0", ".", "0", "0", "0", "0", "0", "0", "0", "0", "0", "0", "0", "0", "0", "0", "0", "0", "0", "0", "1">>,
   <<"@", "n", "a", "n">>}

HarmlessOpts ==
  {<<"#", "t", ":", "v">>, <<"#", "h", ":", ",", "e", ":", "p">>, <<"x">>}

\* The float64 of each sample value of the inputs.
InputValue(v) ==
  CASE v = <<"1">> ->
         Double(FALSE, <<1>>, 0)
    [] v = <<"-", "3">> ->
         Double(TRUE, <<3>>, 0)
    [] v = <<"1", "0", "0">> ->
         Double(FALSE, <<25>>, 2)
    [] v = <<"+", "5">> ->
         Double(FALSE, <<5>>, 0)
    [] v = <<"2", ".", "5">> ->
         Double(FALSE, <<5>>, -1)
    [] v = <<"5">> ->
         Double(FALSE, <<5>>, 0)
    [] v = <<"1", "e", "2">> ->
         Double(FALSE, <<25>>, 2)
    [] v = <<"0", "x", "1", "p", "-", "2">> ->
         Double(FALSE, <<1>>, -2)
    [] v = <<"1", "_", "0">> ->
         Double(FALSE, <<5>>, 1)
    [] v = <<"i", "n", "f">> ->
         FInf(FALSE)
    [] v = <<"n", "a", "n">> ->
         FNaN

\* The input is one ms sample with exactly one sampling factor.
TimerFactorCase ==
  /\ pres.ran
  /\ ~pin.raw
  /\ Len(pin.samples) = 1
  /\ pin.samples[1].type = <<"m", "s">>
  /\ pin.samples[1].value \notin MalformedValues
  /\ LET opts == pin.samples[1].opts
     IN  /\ Cardinality({i \in 1..Len(opts) : opts[i] \in FactorOpts}) = 1
         /\ \A i \in 1..Len(opts) : opts[i] \in FactorOpts \cup HarmlessOpts

TimerFactorOpt ==
  LET opts == pin.samples[1].opts
  IN  opts[CHOOSE i \in 1..Len(opts) : opts[i] \in FactorOpts]

TimerFactor == FactorValue(TimerFactorOpt)

AllTimerEventsUnscaled ==
  \A i \in 1..Len(pres.events) :
    /\ pres.events[i].kind = "timer"
    /\ pres.events[i].value = InputValue(pin.samples[1].value)

\* x lies half way between two integers.
IsTie(x) == x.cls = "fin" /\ x.exp = -1

\* The integers that x rounded to the nearest integer can be: at a tie both
\* neighbours, whichever way ties go.
RoundedCounts(x, machine) ==
  {RoundOf(x, machine)} \cup
    (IF IsTie(x) THEN {IntOf(x, machine)} ELSE {})

\* The parser returned c events, none for a negative c.
ReturnedCount(c) ==
  BFromInt(Len(pres.events)) = (IF c.neg THEN <<>> ELSE c.mag)

\* C6: an ms sample with factor f yields round(1/f) timer events of the
\* unscaled value, whenever the parser returns.  The code yields int(1/f)
\* of them, the float64 quotient cut to its integer part: '100|ms|@0.6'
\* gives 1 event where round(1/0.6) is 2, and '@0.00032' gives 3124 where
\* round(1/0.00032) is 3125.
C6_TimerRoundedExpansion ==
  (TimerFactorCase /\ ~pres.panic) =>
    /\ \E machine \in Machines :
         \E c \in RoundedCounts(FDiv(One, TimerFactor), machine) :
           ReturnedCount(c)
    /\ AllTimerEventsUnscaled

NegativeCounterStep ==
  /\ DispatchEvent
  /\ disp.events[disp.i].kind = "counter"
  /\ FNegative(disp.events[disp.i].value)

NegativeCounterEffect ==
  /\ eventStats' = [eventStats EXCEPT !["illegal_negative_counter"] = @ + 1]
  /\ disp'.pc # "get"
  /\ UNCHANGED <<Elements, registry, metrics, lastGet, conflictingEventStats,
                 hashScratch, inGet>>

\* C7 as stated: handling any counter event with a negative value creates
\* and fetches no counter, changes no metric, and adds exactly one to
\* illegal_negative_counter and nothing to the counter statistics.
C7_NegativeCounterCounted ==
  [][NegativeCounterStep => NegativeCounterEffect]_vars

\* C7 amended: the same, for a negative counter event that the naming
\* policy does not drop.
C7_KeptNegativeCounterCounted ==
  [][(/\ NegativeCounterStep
      /\ Resolve(disp.events[disp.i]).mapping.Action # actionTypeDrop)
       => NegativeCounterEffect]_vars

C7_Witness ==
  /\ handled # <<>>
  /\ handled[Len(handled)].outcome = "illegal_negative_counter"
  /\ \E h \in 1..Len(metrics) :
       /\ metrics[h].kind = "counter"
       /\ metrics[h].value = One

\* The gauge events applied under fingerprint fp, in order.
GaugeEventsOf(fp) ==
  SelectSeq(handled,
            LAMBDA e : /\ e.ev.kind = "gauge"
                       /\ e.outcome = "ok"
                       /\ HashOf(e.ev) = fp)

\* The gauge events applied to the name and labels of event ev, in order.
GaugeEventsLike(ev) ==
  SelectSeq(handled,
            LAMBDA e : /\ e.ev.kind = "gauge"
                       /\ e.outcome = "ok"
                       /\ SameIdentity(e.ev, ev))

RECURSIVE SumFrom(_, _, _)
\* sum, and the values of the events from position i on, added in order
SumFrom(sum, es, i) ==
  IF i > Len(es) THEN sum
  ELSE SumFrom(FAdd(sum, es[i].ev.value), es, i + 1)

LastAbsolute(es) ==
  IF \E i \in 1..Len(es) : ~es[i].ev.relative
  THEN CHOOSE i \in 1..Len(es) :
         /\ ~es[i].ev.relative
         /\ \A j \in (i + 1)..Len(es) : es[j].ev.relative
  ELSE 0

ExpectedAfter(es, k) ==
  SumFrom(IF k = 0 THEN Zero ELSE es[k].ev.value, es, k + 1)
GaugeExpected(es) == ExpectedAfter(es, LastAbsolute(es))

\* C8 as stated: the gauge of every identity holds the value of the last
\* absolute event applied to that identity plus the sum of the relative
\* events applied to it after that.
C8_GaugeValueOfIdentity ==
  \A i \in 1..Len(handled) :
    (handled[i].ev.kind = "gauge" /\ handled[i].outcome = "ok") =>
      metrics[Elements["gauge"][HashOf(handled[i].ev)]].value =
        GaugeExpected(GaugeEventsLike(handled[i].ev))

\* C8 amended: every gauge holds the value of the last absolute event
\* applied under its fingerprint plus the sum of the relative events applied
\* under it after that, whatever the names and labels of those events.
C8_GaugeValue ==
  \A fp \in DOMAIN Elements["gauge"] :
    metrics[Elements["gauge"][fp]].value = GaugeExpected(GaugeEventsOf(fp))

\* Relative +5, then absolute 10 on the same identity: the gauge holds 10.
GaugeSetAfterAdd(es, m) ==
  /\ Len(es) = 2
  /\ es[1].ev.relative /\ es[1].ev.value = FromInt(5)
  /\ ~es[2].ev.relative /\ es[2].ev.value = FromInt(10)
  /\ SameIdentity(es[1].ev, es[2].ev)
  /\ m.value = FromInt(10)

C8_Witness ==
  \E fp \in DOMAIN Elements["gauge"] :
    GaugeSetAfterAdd(GaugeEventsOf(fp), metrics[Elements["gauge"][fp]])

KindOfType(t) ==
  CASE t = <<"c">> -> "counter"
    [] t = <<"g">> -> "gauge"
    [] t \in {<<"m", "s">>, <<"h">>} -> "timer"

\* The input is a line of valid samples without optional components.
ValidPlainCase ==
  /\ pres.ran
  /\ ~pin.raw
  /\ \A i \in 1..Len(pin.samples) :
       /\ pin.samples[i].opts = <<>>
       /\ pin.samples[i].type \in SupportedTypes
       /\ pin.samples[i].value \in
            {<<"1">>, <<"+", "5">>, <<"-", "3">>, <<"2", ".", "5">>}

\* C9: a valid line of N samples without tags or sampling factor yields N
\* events in sample order, each with the line's name and its sample's value
\* and kind.
C9_OneEventPerSample ==
  ValidPlainCase =>
    /\ Len(pres.events) = Len(pin.samples)
    /\ \A i \in 1..Len(pin.samples) :
         /\ pres.events[i].metricName = pin.name
         /\ pres.events[i].value = InputValue(pin.samples[i].value)
         /\ pres.events[i].kind = KindOfType(pin.samples[i].type)

C9_Witness ==
  /\ ValidPlainCase
  /\ Len(pin.samples) = MaxSamples
  /\ Len(pres.events) = MaxSamples
  /\ pres.events[1].kind # pres.events[2].kind

\* C10: an entry of a container is never removed or replaced, and a Get for
\* a fingerprint the container holds returns the handle stored first, without
\* registering or building anything, whatever help or tuning it is given.
C10_EntriesAreKept ==
  [][/\ \A c \in Containers : \A fp \in DOMAIN Elements[c] :
          fp \in DOMAIN Elements'[c] /\ Elements'[c][fp] = Elements[c][fp]
     /\ LET hash == HashSum64(hashScratch)
            c == disp.call.container
        IN  (DispatchGet /\ hash \in DOMAIN Elements[c]) =>
              LET h == Elements[c][hash]
              IN  /\ lastGet'.handle = h
                  /\ ~lastGet'.err
                  /\ Elements' = Elements
                  /\ registry' = registry
                  /\ Len(metrics') = Len(metrics)
                  /\ metrics'[h].help = metrics[h].help
                  /\ metrics'[h].tuning = metrics[h].tuning]_vars

\* A Get found an entry built with another help text than the one passed.
C10_Witness ==
  /\ lastGet.hit
  /\ handled # <<>>
  /\ handled[Len(handled)].outcome = "ok"
  /\ Resolve(handled[Len(handled)].ev).help # metrics[lastGet.handle].help

\* The dispatcher is about to handle an event that the policy drops.
DroppedStep ==
  /\ DispatchEvent
  /\ getMapping(disp.events[disp.i].metricName,
                disp.events[disp.i].kind).mapping.Action = actionTypeDrop

\* The position in the batch after the event at disp.i.
NextInBatch ==
  IF disp.i < Len(disp.events)
  THEN /\ disp'.pc = "event"
       /\ disp'.events = disp.events
       /\ disp'.i = disp.i + 1
  ELSE disp'.pc = "recv"

\* C11: handling an event that the naming policy maps to action Drop leaves
\* every container, every metric, the registry, the event statistics, the
\* conflicting-event statistics and the unmapped count unchanged, and the
\* dispatcher goes on with the next event of the batch.
C11_DropLeavesAllUnchanged ==
  [][DroppedStep =>
       /\ UNCHANGED <<Elements, registry, metrics, eventStats,
                      conflictingEventStats, eventsUnmapped>>
       /\ NextInBatch]_vars

\* A dropped event was the first of its batch and the dispatcher stands at
\* the second.
C11_Witness ==
  /\ handled # <<>>
  /\ handled[Len(handled)].outcome = "dropped"
  /\ disp.pc = "event"
  /\ disp.i = 2

\* labels holds the event's own labels with the policy's labels over them.
IsOverlay(labels, eventLabels, policyLabels) ==
  /\ DOMAIN labels = DOMAIN eventLabels \cup DOMAIN policyLabels
  /\ \A k \in DOMAIN policyLabels : labels[k] = policyLabels[k]
  /\ \A k \in DOMAIN eventLabels \ DOMAIN policyLabels :
       labels[k] = eventLabels[k]

\* What the step handling event ev did, m being the policy's answer for it.
LabelsAsResolved(ev, m) ==
  /\ (m.present /\ disp'.pc = "get") =>
       IsOverlay(disp'.call.labels, ev.labels, m.labels)
  /\ (~m.present /\ disp'.pc = "get") =>
       /\ disp'.call.labels = ev.labels
       /\ disp'.call.metricName = escapeMetricName(ev.metricName).val
  /\ ~m.present => eventsUnmapped' = eventsUnmapped + 1
  /\ disp'.pc = "get" =>
       hashScratch' = HashWrite(disp'.call.metricName, disp'.call.labels)

\* C12: a mapped, kept event selects or creates its metric under its own
\* labels with the policy's labels written over them, the policy's value
\* winning on a shared key; an unmapped event uses exactly its own labels and
\* its escaped raw name, and adds one to the unmapped count.  The metric a
\* Get creates carries the name and labels it was called with.
C12_LabelsOverlaidByPolicy ==
  [][/\ (/\ DispatchEvent
         /\ getMapping(disp.events[disp.i].metricName,
                       disp.events[disp.i].kind).mapping.Action
              # actionTypeDrop)
        => LabelsAsResolved(disp.events[disp.i],
                            getMapping(disp.events[disp.i].metricName,
                                       disp.events[disp.i].kind))
     /\ (DispatchGet /\ ~lastGet'.err /\ ~lastGet'.hit)
        => /\ metrics'[lastGet'.handle].name = disp.call.metricName
           /\ metrics'[lastGet'.handle].labels = disp.call.labels]_vars

\* The event at position k was mapped, and carried a label the policy also
\* sets, with another value.
CollidingEvent(ev, m) ==
  /\ m.present
  /\ \E k \in DOMAIN ev.labels \cap DOMAIN m.labels : ev.labels[k] # m.labels[k]

\* An event whose label collides with a policy label was recorded on a
\* metric carrying the policy's value, and an unmapped event was counted.
C12_Witness ==
  /\ eventsUnmapped > 0
  /\ handled # <<>>
  /\ handled[Len(handled)].outcome = "ok"
  /\ CollidingEvent(handled[Len(handled)].ev,
                    getMapping(handled[Len(handled)].ev.metricName,
                               handled[Len(handled)].ev.kind))
  /\ lastGet.handle # 0
  /\ metrics[lastGet.handle].labels[<<"t">>] = <<"p">>

\* The number of readers that hold a parsed batch and wait to send it.
PendingSenders ==
  (IF udp.pc = "send" THEN 1 ELSE 0)
    + Cardinality({c \in ConnIds : conns[c].pc = "send"})

RECURSIVE EventsOfLines(_, _, _)
\* The events of the lines from position i on, line after line.
EventsOfLines(lines, i, machine) ==
  IF i > Len(lines) THEN <<>>
  ELSE lineToEvents(lines[i], machine).events
       \o EventsOfLines(lines, i + 1, machine)

\* A datagram's batch holds the events of its lines in line order, a TCP
\* line's batch holds that line's events, and a send pushes the batch held.
BatchesAsRead ==
  [][/\ (UDPRead /\ proc' = "running") =>
          \E packet \in Packets, machine \in Machines :
            udp'.events = EventsOfLines(Split(packet, "\n"), 1, machine)
     /\ (ConnReadLine /\ proc' = "running") =>
          \E c \in ConnIds, line \in TcpLines, machine \in Machines :
            /\ conns[c].pc = "read"
            /\ conns'[c] = [pc |-> "send",
                            events |-> lineToEvents(line, machine).events]
     /\ UDPSend => pushed' = Append(pushed, udp.events)
     /\ ConnSend => \E c \in ConnIds :
                      /\ conns[c].pc = "send"
                      /\ pushed' = Append(pushed, conns[c].events)]_vars

\* C13: every datagram and every TCP line read results in exactly one push:
\* each input read so far has been pushed or is held by the reader that is
\* waiting to send it.
C13_OnePushPerInput ==
  inputs = Len(pushed) + PendingSenders

\* C14: a socket failure of a listener (a UDP read error or a TCP accept
\* error) ends only that listener: the process keeps running, so the
\* dispatcher, the other listener and the connection handlers can still take
\* their steps and the batches in the channel are still dispatched.
C14_SocketFailureEndsOnlyListener ==
  [][(UDPReadError \/ TCPAcceptError) => proc' = "running"]_vars

\* The input is one c sample with exactly one sampling factor.
CounterFactorCase ==
  /\ pres.ran
  /\ ~pin.raw
  /\ Len(pin.samples) = 1
  /\ pin.samples[1].type = <<"c">>
  /\ pin.samples[1].value \notin MalformedValues
  /\ Cardinality({i \in 1..Len(pin.samples[1].opts) :
                    pin.samples[1].opts[i] \in FactorOpts}) = 1
  /\ \A i \in 1..Len(pin.samples[1].opts) :
       pin.samples[1].opts[i] \in FactorOpts \cup HarmlessOpts

\* The factor of the one sample, 0 read as 1.
CounterFactor ==
  FactorValue(pin.samples[1].opts[
                CHOOSE i \in 1..Len(pin.samples[1].opts) :
                  pin.samples[1].opts[i] \in FactorOpts])

\* q is the float64 quotient of v by f.
IsQuotient(q, v, f) == q = FDiv(v, f)

\* C15: a counter sample with value v and sampling factor f yields exactly
\* one counter event, of value v / f, a factor of 0 counting as 1.
C15_CounterDividedByFactor ==
  CounterFactorCase =>
    /\ Len(pres.events) = 1
    /\ pres.events[1].kind = "counter"
    /\ IsQuotient(pres.events[1].value, InputValue(pin.samples[1].value),
                  CounterFactor)

\* '5|c|@0.1' gave one event of value 50.
C15_Witness ==
  /\ CounterFactorCase
  /\ pin.samples[1].value = <<"5">>
  /\ pin.samples[1].opts = << <<"@", "0", ".", "1">> >>
  /\ pres.events = <<[kind |-> "counter", metricName |-> <<"a">>,
                      value |-> FromInt(50), relative |-> FALSE,
                      labels |-> NoLabels]>>

\* Tag blocks as lists of tags: key, whether a ':' follows, and the value.
TagBlocks ==
  {<<[key |-> <<"t">>, colon |-> TRUE, value |-> <<"v">>]>>,
   <<[key |-> <<>>, colon |-> TRUE, value |-> <<"v">>]>>,
   <<[key |-> <<"h">>, colon |-> TRUE, value |-> <<>>],
     [key |-> <<"e">>, colon |-> TRUE, value |-> <<"p">>]>>,
   <<[key |-> <<"n">>, colon |-> FALSE, value |-> <<>>],
     [key |-> <<"9", ".", "k">>, colon |-> TRUE, value |-> <<"v">>]>>}

RenderTag(tag) ==
  IF tag.colon THEN tag.key \o <<":">> \o tag.value ELSE tag.key

RenderTags(tags) ==
  <<"#">> \o Join([i \in 1..Len(tags) |-> RenderTag(tags[i])], ",")

\* The tags that have a ':' followed by a non-empty value.
GoodTags(tags) ==
  {i \in 1..Len(tags) : tags[i].colon /\ tags[i].value # <<>>}

\* The input is one valid sample whose only optional component is a tag
\* block.
TagCase ==
  /\ pres.ran
  /\ ~pin.raw
  /\ Len(pin.samples) = 1
  /\ pin.samples[1].type \in SupportedTypes
  /\ pin.samples[1].value \notin MalformedValues
  /\ \E tags \in TagBlocks : pin.samples[1].opts = <<RenderTags(tags)>>

TagsOfInput ==
  CHOOSE tags \in TagBlocks : pin.samples[1].opts = <<RenderTags(tags)>>

\* What the parser made of the tag block tags.
TagsParsed(tags) ==
  /\ ~pres.panic
  /\ Len(pres.events) = 1
  /\ pres.events[1].value = InputValue(pin.samples[1].value)
  /\ pres.events[1].kind = KindOfType(pin.samples[1].type)
  /\ {<<k, pres.events[1].labels[k]>> : k \in DOMAIN pres.events[1].labels} =
       {<<escapeMetricName(tags[i].key).val, tags[i].value>> :
          i \in GoodTags(tags)}
  /\ pres.stats["tagErrors"] = Len(tags) - Cardinality(GoodTags(tags))

\* C16: a tag block becomes the label set of exactly its tags that have a
\* ':' followed by a non-empty value, key escaped and value verbatim; every
\* other tag is skipped and adds one to the tag-error count, and the event is
\* emitted all the same.
C16_TagsToLabels == TagCase => TagsParsed(TagsOfInput)

\* The same for the tag blocks in which no tag has an empty key.
TagsToLabelsForNamedKeys ==
  (TagCase /\ \A i \in 1..Len(TagsOfInput) : TagsOfInput[i].key # <<>>)
    => TagsParsed(TagsOfInput)

\* The input is one sample of a type other than c and ms that carries
\* sampling factors, and nothing else but tag blocks or unknown components.
UnsampledFactorCase ==
  /\ pres.ran
  /\ ~pin.raw
  /\ Len(pin.samples) = 1
  /\ pin.samples[1].type \in {<<"h">>, <<"g">>}
  /\ pin.samples[1].value \notin MalformedValues
  /\ \E i \in 1..Len(pin.samples[1].opts) :
       pin.samples[1].opts[i] \in FactorOpts
  /\ \A i \in 1..Len(pin.samples[1].opts) :
       pin.samples[1].opts[i] \in FactorOpts \cup HarmlessOpts

\* C17: a sample of type h (or of any type but c and ms) with an '@factor'
\* component has the factor ignored: each factor adds one to
\* 'illegal_sample_factor', and exactly one event of the type's kind, a
\* timer event for h, is emitted with the unscaled value.
C17_FactorIgnoredForH ==
  UnsampledFactorCase =>
    /\ Len(pres.events) = 1
    /\ pres.events[1].kind = KindOfType(pin.samples[1].type)
    /\ pres.events[1].value = InputValue(pin.samples[1].value)
    /\ pres.stats["illegal_sample_factor"] =
         Cardinality({i \in 1..Len(pin.samples[1].opts) :
                        pin.samples[1].opts[i] \in FactorOpts})

\* '100|h|@0.5' gave one timer event of value 100 and one error.
C17_Witness ==
  /\ UnsampledFactorCase
  /\ pin.samples[1].type = <<"h">>
  /\ pin.samples[1].value = <<"1", "0", "0">>
  /\ pin.samples[1].opts = << <<"@", "0", ".", "5">> >>
  /\ Len(pres.events) = 1
  /\ pres.events[1].kind = "timer"
  /\ pres.events[1].value = FromInt(100)
  /\ pres.stats["illegal_sample_factor"] = 1

\* Sample i of the input has an empty optional component.
HasEmptyComponent(i) ==
  \E j \in 1..Len(pin.samples[i].opts) : pin.samples[i].opts[j] = <<>>

\* Sample i of the input is valid and has no optional component.
IsPlainValid(i) ==
  /\ pin.samples[i].opts = <<>>
  /\ pin.samples[i].type \in SupportedTypes
  /\ pin.samples[i].value \in
       {<<"1">>, <<"+", "5">>, <<"-", "3">>, <<"2", ".", "5">>}

PlainValidSamples == {i \in 1..Len(pin.samples) : IsPlainValid(i)}

\* The input has samples with an empty optional component, and all its
\* other samples are valid and plain.
EmptyComponentCase ==
  /\ pres.ran
  /\ ~pin.raw
  /\ \E i \in 1..Len(pin.samples) : HasEmptyComponent(i)
  /\ \A i \in 1..Len(pin.samples) : HasEmptyComponent(i) \/ IsPlainValid(i)

\* The samples with an empty component gave no event and one
\* malformed-component error each; no factor and no tag block was read; the
\* other samples gave their events, in order.
EmptyComponentEffect ==
  /\ ~pres.panic
  /\ pres.stats["malformed_component"] =
       Cardinality({i \in 1..Len(pin.samples) : HasEmptyComponent(i)})
  /\ pres.stats["tagsReceived"] = 0
  /\ pres.stats["illegal_sample_factor"] = 0
  /\ pres.stats["invalid_sample_factor"] = 0
  /\ Len(pres.events) = Cardinality(PlainValidSamples)
  /\ \A i \in PlainValidSamples :
       /\ pres.events[Cardinality({j \in PlainValidSamples : j <= i})].value
            = InputValue(pin.samples[i].value)
       /\ pres.events[Cardinality({j \in PlainValidSamples : j <= i})].kind
            = KindOfType(pin.samples[i].type)
       /\ pres.events[Cardinality({j \in PlainValidSamples : j <= i})].metricName
            = pin.name

\* C18 as stated: a sample with an empty optional component yields no event
\* and exactly one malformed-component error, none of its other components
\* is applied, and the other samples of the line still yield their events.
C18_EmptyComponentSkipsSample == EmptyComponentCase => EmptyComponentEffect

\* C18 amended: the same, for samples whose value parses as a number.
C18_EmptyComponentSkipsParsedSample ==
  (/\ EmptyComponentCase
   /\ \A i \in 1..Len(pin.samples) :
        pin.samples[i].value \notin MalformedValues)
    => EmptyComponentEffect

\* 'a:1|c|@0.5|:1|g' gave the gauge event only, and one error.
C18_Witness ==
  /\ EmptyComponentCase
  /\ Len(pin.samples) = 2
  /\ pin.samples[1].value = <<"1">>
  /\ pin.samples[1].opts = << <<"@", "0", ".", "5">>, <<>> >>
  /\ Len(pres.events) = 1
  /\ pres.events[1].kind = "gauge"
  /\ pres.stats["malformed_component"] = 1

\* The container the timer event ev belongs to, m being the policy's answer
\* for it.
TimerRoute(m) ==
  IF (IF m.mapping.TimerType = timerTypeDefault THEN defaultsTimerType
      ELSE m.mapping.TimerType) = timerTypeHistogram
  THEN "histogram" ELSE "summary"

\* The other of the two timer containers.
OtherTimerContainer(c) == IF c = "histogram" THEN "summary" ELSE "histogram"

\* The metric behind handle h has one more observation, o.
ObservedOnce(h, o) ==
  /\ metrics'[h].obs =
       (IF h <= Len(metrics) THEN metrics[h].obs ELSE <<>>) \o <<o>>
  /\ \A g \in 1..Len(metrics) : g # h => metrics'[g] = metrics[g]

\* What the Get and the update for the timer event ev did.
TimerRecorded(ev, c) ==
  /\ c = TimerRoute(getMapping(ev.metricName, ev.kind))
  /\ lastGet'.container = c
  /\ Elements'[OtherTimerContainer(c)] = Elements[OtherTimerContainer(c)]
  /\ ~lastGet'.err =>
       \E o \in {metrics'[lastGet'.handle].obs[
                   Len(metrics'[lastGet'.handle].obs)]} :
         /\ ObservedOnce(lastGet'.handle, o)
         /\ metrics'[lastGet'.handle].kind = c
         /\ IF c = "histogram"
            THEN o = FDiv(ev.value, FromInt(1000))
            ELSE o = ev.value

\* C19: a timer event goes to the histogram container when its effective
\* timer type (the mapping's, or the policy-wide default when the mapping's
\* is Default or there is no mapping) is Histogram, and to the summary
\* container otherwise; a histogram observes the value divided by 1000, a
\* summary the value itself, and the other container is left alone.
C19_TimerRouting ==
  [][/\ (DispatchEvent /\ disp'.pc = "get"
           /\ disp.events[disp.i].kind = "timer")
        => disp'.call.container =
             TimerRoute(getMapping(disp.events[disp.i].metricName,
                                   disp.events[disp.i].kind))
     /\ (DispatchGet /\ disp.events[disp.i].kind = "timer")
        => TimerRecorded(disp.events[disp.i], disp.call.container)]_vars

\* The 4 ms of 'b:4|ms' were observed as 0.004 s by a histogram, and no
\* summary exists.
C19_Witness ==
  /\ handled # <<>>
  /\ handled[Len(handled)].ev.kind = "timer"
  /\ handled[Len(handled)].ev.value = FromInt(4)
  /\ handled[Len(handled)].outcome = "ok"
  /\ lastGet.container = "histogram"
  /\ metrics[lastGet.handle].obs = <<Double(FALSE, <<27263, 27000, 25165, 32>>, -58)>>
  /\ DOMAIN Elements["summary"] = {}

\* The metric objects whose recorded value differs after the step; an object
\* built by the step counts when it holds anything.
ChangedMetrics ==
  {h \in 1..Len(metrics') :
     IF h <= Len(metrics)
     THEN metrics'[h].value # metrics[h].value \/ metrics'[h].obs # metrics[h].obs
     ELSE metrics'[h].value # Zero \/ metrics'[h].obs # <<>>}

\* The statistics of either family that the step changed.
BumpedEventStats == {k \in DOMAIN eventStats : eventStats'[k] # eventStats[k]}
BumpedConflictStats ==
  {k \in DOMAIN conflictingEventStats :
     conflictingEventStats'[k] # conflictingEventStats[k]}

\* Exactly the event statistic k went up, by one.
OnlyEventStat(k) ==
  /\ BumpedEventStats = {k}
  /\ eventStats'[k] = eventStats[k] + 1
  /\ BumpedConflictStats = {}

\* Exactly the conflicting-event statistic k went up, by one.
OnlyConflictStat(k) ==
  /\ BumpedConflictStats = {k}
  /\ conflictingEventStats'[k] = conflictingEventStats[k] + 1
  /\ BumpedEventStats = {}

\* The step handles an event that the policy keeps without asking a
\* container: one of the two rejection statistics goes up, or none yet when
\* a container's Get is entered; no metric changes.
KeptEventStep ==
  (/\ DispatchEvent
   /\ getMapping(disp.events[disp.i].metricName,
                 disp.events[disp.i].kind).mapping.Action # actionTypeDrop)
    => /\ ChangedMetrics = {}
       /\ IF disp'.pc = "get"
          THEN BumpedEventStats = {} /\ BumpedConflictStats = {}
          ELSE \/ OnlyEventStat("illegal_negative_counter")
               \/ OnlyEventStat("illegal")

\* C20 as stated: handling an event that the policy does not drop
\* increments exactly one outcome statistic: 'illegal_negative_counter' or
\* 'illegal' when no container is asked, else the success statistic or the
\* conflicting-event statistic of its kind when the container's Get returns.
\* At most one metric object changes its value, and one does exactly when
\* the success statistic is the one incremented.
C20_OneOutcomePerEvent ==
  [][/\ KeptEventStep
     /\ DispatchGet
        => /\ \/ OnlyEventStat(disp.events[disp.i].kind)
              \/ OnlyConflictStat(disp.events[disp.i].kind)
           /\ Cardinality(ChangedMetrics) <= 1
           /\ ChangedMetrics # {} <=> OnlyEventStat(disp.events[disp.i].kind)]_vars

\* The value and observations of the object behind handle h before the
\* step; those of a new object when the step built it.
ValueBefore(h) == IF h <= Len(metrics) THEN metrics[h].value ELSE Zero
ObsBefore(h) == IF h <= Len(metrics) THEN metrics[h].obs ELSE <<>>

\* The object behind handle h received the event's update: an addition for
\* a counter or a relative gauge event, a set for an absolute gauge event,
\* one more observation for a timer event.
UpdatedBy(h, ev) ==
  CASE ev.kind = "counter" ->
         /\ metrics'[h].value = FAdd(ValueBefore(h), ev.value)
         /\ metrics'[h].obs = ObsBefore(h)
    [] ev.kind = "gauge" /\ ev.relative ->
         /\ metrics'[h].value = FAdd(ValueBefore(h), ev.value)
         /\ metrics'[h].obs = ObsBefore(h)
    [] ev.kind = "gauge" /\ ~ev.relative ->
         /\ metrics'[h].value = ev.value
         /\ metrics'[h].obs = ObsBefore(h)
    [] ev.kind = "timer" ->
         /\ Len(metrics'[h].obs) = Len(ObsBefore(h)) + 1
         /\ SubSeq(metrics'[h].obs, 1, Len(ObsBefore(h))) = ObsBefore(h)
         /\ metrics'[h].value = ValueBefore(h)

\* C20 amended: exactly one outcome statistic per kept event, as above; on
\* a success the one object the Get handed back receives the event's update
\* (which may leave its value as it was) and no other object changes; on a
\* conflict no object changes.
C20_OneOutcomeOneUpdate ==
  [][/\ KeptEventStep
     /\ DispatchGet
        => /\ \/ OnlyEventStat(disp.events[disp.i].kind)
              \/ OnlyConflictStat(disp.events[disp.i].kind)
           /\ OnlyEventStat(disp.events[disp.i].kind)
                => /\ ~lastGet'.err
                   /\ UpdatedBy(lastGet'.handle, disp.events[disp.i])
                   /\ ChangedMetrics \subseteq {lastGet'.handle}
           /\ OnlyConflictStat(disp.events[disp.i].kind)
                => ChangedMetrics = {}]_vars

\* A timer event was refused by the registry for a histogram that stays in
\* its container, counted as conflicting, and observed by no metric.
C20_Witness ==
  /\ handled # <<>>
  /\ handled[Len(handled)].outcome = "conflict"
  /\ handled[Len(handled)].ev.kind = "timer"
  /\ lastGet.container = "histogram"
  /\ lastGet.hash \in DOMAIN Elements["histogram"]
  /\ metrics[Elements["histogram"][lastGet.hash]].obs = <<>>
  /\ conflictingEventStats["timer"] = 1

====
